---- MODULE Spec2Model ----
(***************************************************************************)
(* stm32tpl, stm32_spi.h: the SPI controller classes SpiBase and           *)
(* Spi<props>, their register accesses, the scmRTOS mutex they wrap and    *)
(* the SPI peripheral they drive.                                          *)
(*                                                                         *)
(* Registers are modelled as the memory cells the code loads and stores:   *)
(* a store takes effect whether or not the peripheral clock is running.    *)
(* The clock gate and the SPE bit govern only the serial engine.           *)
(***************************************************************************)
EXTENDS Integers, Sequences, FiniteSets, TLC

(***************************************************************************)
(* Bit arithmetic on register words.                                       *)
(***************************************************************************)
RECURSIVE BitAnd(_, _)
BitAnd(a, b) ==
    IF a = 0 \/ b = 0 THEN 0
    ELSE (a % 2) * (b % 2) + 2 * BitAnd(a \div 2, b \div 2)

BitOr(a, b) == a + b - BitAnd(a, b)

\* The RCC and AFIO registers are 32 bits wide; bit 31 is reserved in each of
\* them and is left out, so that a word is a natural number below 2^31.
AllOnes == 2147483647

\* ~m as it acts on a register word
BitNot(m) == AllOnes - m

\* SPI registers are 16 bits wide: a store keeps the low half-word
Half(v) == v % (2^16)

(***************************************************************************)
(* Bit masks of the device header, as the source names them.               *)
(***************************************************************************)
SPI_CR1_CPHA == 1
SPI_CR1_CPOL == 2
SPI_CR1_MSTR == 4
SPI_CR1_SPE == 64
SPI_CR1_SSI == 256
SPI_CR1_SSM == 512
SPI_SR_RXNE == 1
SPI_I2SCFGR_I2SMOD == 2048
RCC_APB2ENR_SPI1EN == 4096
RCC_APB1ENR_SPI2EN == 16384
RCC_APB1ENR_SPI3EN == 32768
AFIO_MAPR_SPI1_REMAP == 1
AFIO_MAPR_SPI3_REMAP == 268435456

(***************************************************************************)
(* The enumerations of stm32_spi.h.                                        *)
(***************************************************************************)
SpiNum == {"SPI_1", "SPI_2", "SPI_3"}

SPI_DIV_2 == 0
SPI_DIV_4 == 8
SPI_DIV_8 == 16
SPI_DIV_16 == 24
SPI_DIV_32 == 32
SPI_DIV_64 == 40
SPI_DIV_128 == 48
SPI_DIV_256 == 56
Divisor == {SPI_DIV_2, SPI_DIV_4, SPI_DIV_8, SPI_DIV_16,
            SPI_DIV_32, SPI_DIV_64, SPI_DIV_128, SPI_DIV_256}

REMAP_NONE == 0
REMAP_FULL == 1
Remap == {REMAP_NONE, REMAP_FULL}

CPOL_L == 0
CPOL_H == SPI_CR1_CPOL
Cpol == {CPOL_L, CPOL_H}

CPHA_1 == 0
CPHA_2 == SPI_CR1_CPHA
Cpha == {CPHA_1, CPHA_2}

(***************************************************************************)
(* The build: the chip family the header is compiled for.                  *)
(*   F10x      legacy family, AFIO_MAPR_SPI3_REMAP not defined             *)
(*   F10x_CL   legacy family, AFIO_MAPR_SPI3_REMAP defined                 *)
(*   F2xxF4xx  family with the alternate-function multiplexer              *)
(***************************************************************************)
Chips == {"F10x", "F10x_CL", "F2xxF4xx"}

F2xxF4xx(chip) == chip = "F2xxF4xx"

(***************************************************************************)
(* SpiPins<spiNum, remap>: the specializations that exist.                 *)
(***************************************************************************)
SpiPinsDefined == {<<"SPI_1", REMAP_NONE>>, <<"SPI_1", REMAP_FULL>>,
                   <<"SPI_2", REMAP_NONE>>,
                   <<"SPI_3", REMAP_NONE>>, <<"SPI_3", REMAP_FULL>>}

\* a slip: SpiPins<SPI_3, REMAP_FULL> is a copy of SpiPins<SPI_3>
SpiPins_Spi3Copied(spiNum, remap) ==
    CASE spiNum = "SPI_1" /\ remap = REMAP_NONE ->
            [PinSCK |-> "A5", PinMISO |-> "A6", PinMOSI |-> "A7"]
      [] spiNum = "SPI_1" /\ remap = REMAP_FULL ->
            [PinSCK |-> "B3", PinMISO |-> "B4", PinMOSI |-> "B5"]
      [] spiNum = "SPI_2" /\ remap = REMAP_NONE ->
            [PinSCK |-> "B13", PinMISO |-> "B14", PinMOSI |-> "B15"]
      [] spiNum = "SPI_3" ->
            [PinSCK |-> "B3", PinMISO |-> "B4", PinMOSI |-> "B5"]

SpiPins(spiNum, remap) ==
    CASE spiNum = "SPI_1" /\ remap = REMAP_NONE ->
            [PinSCK |-> "A5", PinMISO |-> "A6", PinMOSI |-> "A7"]
      [] spiNum = "SPI_1" /\ remap = REMAP_FULL ->
            [PinSCK |-> "B3", PinMISO |-> "B4", PinMOSI |-> "B5"]
      [] spiNum = "SPI_2" /\ remap = REMAP_NONE ->
            [PinSCK |-> "B13", PinMISO |-> "B14", PinMOSI |-> "B15"]
      [] spiNum = "SPI_3" /\ remap = REMAP_NONE ->
            [PinSCK |-> "B3", PinMISO |-> "B4", PinMOSI |-> "B5"]
      [] spiNum = "SPI_3" /\ remap = REMAP_FULL ->
            [PinSCK |-> "C10", PinMISO |-> "C11", PinMOSI |-> "C12"]

AllPins == {"A5", "A6", "A7", "B3", "B4", "B5",
            "B13", "B14", "B15", "C10", "C11", "C12"}

(***************************************************************************)
(* SpiTraits<spiNum>.                                                      *)
(***************************************************************************)
SPIx_BASE(spiNum) ==
    CASE spiNum = "SPI_1" -> "SPI1_BASE"
      [] spiNum = "SPI_2" -> "SPI2_BASE"
      [] spiNum = "SPI_3" -> "SPI3_BASE"

SPIx_REMAP(spiNum, chip) ==
    CASE spiNum = "SPI_1" ->
            IF chip \in {"F10x", "F10x_CL"} THEN AFIO_MAPR_SPI1_REMAP ELSE 0
      [] spiNum = "SPI_2" -> 0
      [] spiNum = "SPI_3" ->
            IF chip = "F10x_CL" THEN AFIO_MAPR_SPI3_REMAP ELSE 0

ALT_FUNC_SPIx(spiNum) ==
    CASE spiNum = "SPI_1" -> "ALT_FUNC_SPI1"
      [] spiNum = "SPI_2" -> "ALT_FUNC_SPI2"
      [] spiNum = "SPI_3" -> "ALT_FUNC_SPI3"

\* the RCC register and the bit in it that clock the peripheral
ClockReg(spiNum) == IF spiNum = "SPI_1" THEN "APB2ENR" ELSE "APB1ENR"

ClockBit(spiNum) ==
    CASE spiNum = "SPI_1" -> RCC_APB2ENR_SPI1EN
      [] spiNum = "SPI_2" -> RCC_APB1ENR_SPI2EN
      [] spiNum = "SPI_3" -> RCC_APB1ENR_SPI3EN

\* a slip: ^= in place of |=
EnableClocks_Toggle(spiNum, h) ==
    [h EXCEPT ![ClockReg(spiNum)] =
        BitOr(@, ClockBit(spiNum)) - BitAnd(@, ClockBit(spiNum))]

\* `h` is the hardware: a record of the registers and the pin settings
EnableClocks(spiNum, h) ==
    IF spiNum = "SPI_1"
    THEN [h EXCEPT !.APB2ENR = BitOr(h.APB2ENR, RCC_APB2ENR_SPI1EN)]
    ELSE [h EXCEPT !.APB1ENR = BitOr(h.APB1ENR, ClockBit(spiNum))]

\* a slip: every specialization clears the APB2 bit of SPI_1
DisableClocks_AlwaysSpi1(spiNum, h) ==
    [h EXCEPT !.APB2ENR = BitAnd(h.APB2ENR, BitNot(RCC_APB2ENR_SPI1EN))]

DisableClocks(spiNum, h) ==
    IF spiNum = "SPI_1"
    THEN [h EXCEPT !.APB2ENR = BitAnd(h.APB2ENR, BitNot(RCC_APB2ENR_SPI1EN))]
    ELSE [h EXCEPT !.APB1ENR = BitAnd(h.APB1ENR, BitNot(ClockBit(spiNum)))]

(***************************************************************************)
(* SpiBase: the configuration accessors.  Each operator on a word is the   *)
(* value the accessor stores for the CR1 value it loaded; each operator on *)
(* `h` is the accessor run without interruption.                           *)
(***************************************************************************)
\* a slip: the mask is not inverted
DisableWord_NoInvert(cr1) == Half(BitAnd(cr1, SPI_CR1_SPE))

\* a slip: the old divisor is not cleared
SetDivisorWord_NoClear(cr1, div) == Half(BitOr(cr1, div))

\* a slip: the mask covers CPHA as well
SetCpolWord_WideMask(cr1, pol) ==
    Half(BitOr(BitAnd(cr1, BitNot(SPI_CR1_CPOL + SPI_CR1_CPHA)), pol))

EnableWord(cr1) == Half(BitOr(cr1, SPI_CR1_SPE))
DisableWord(cr1) == Half(BitAnd(cr1, BitNot(SPI_CR1_SPE)))
SetDivisorWord(cr1, div) == Half(BitOr(BitAnd(cr1, BitNot(SPI_DIV_256)), div))
SetCpolWord(cr1, pol) == Half(BitOr(BitAnd(cr1, BitNot(SPI_CR1_CPOL)), pol))
SetCphaWord(cr1, pha) == Half(BitOr(BitAnd(cr1, BitNot(SPI_CR1_CPHA)), pha))

Enable(h) == [h EXCEPT !.CR1 = EnableWord(h.CR1)]
Disable(h) == [h EXCEPT !.CR1 = DisableWord(h.CR1)]
SetDivisor(h, div) == [h EXCEPT !.CR1 = SetDivisorWord(h.CR1, div)]
GetDivisor(h) == BitAnd(h.CR1, SPI_DIV_256)
SetCpol(h, pol) == [h EXCEPT !.CR1 = SetCpolWord(h.CR1, pol)]
GetCpol(h) == BitAnd(h.CR1, SPI_CR1_CPOL)
SetCpha(h, pha) == [h EXCEPT !.CR1 = SetCphaWord(h.CR1, pha)]
GetCpha(h) == BitAnd(h.CR1, SPI_CR1_CPHA)

(***************************************************************************)
(* Spi<props>: HwInit and HwDeinit, statement by statement.  `p` is the    *)
(* props structure, `chip` the build.                                      *)
(***************************************************************************)
SCK(p) == SpiPins(p.NUMBER, p.REMAP).PinSCK
MISO(p) == SpiPins(p.NUMBER, p.REMAP).PinMISO
MOSI(p) == SpiPins(p.NUMBER, p.REMAP).PinMOSI

PinMode(h, pin, m) == [h EXCEPT !.mode[pin] = m]
PinAlternate(h, pin, af) == [h EXCEPT !.alt[pin] = af]

\* a slip: SSI is left out
InitCR1_NoSSI(p) ==
    Half(BitOr(SPI_CR1_MSTR, BitOr(SPI_CR1_SSM,
         BitOr(SPI_CR1_SPE, BitOr(p.InitialDivisor,
         BitOr(p.InitialCPHA, p.InitialCPOL))))))

\* the value HwInit stores to CR1
InitCR1(p) ==
    Half(BitOr(SPI_CR1_MSTR, BitOr(SPI_CR1_SSM, BitOr(SPI_CR1_SSI,
         BitOr(SPI_CR1_SPE, BitOr(p.InitialDivisor,
         BitOr(p.InitialCPHA, p.InitialCPOL)))))))

\* a slip: EnableClocks() is called after the SPI registers are written
HwInitProg_LateClock(p, chip) ==
    IF ~F2xxF4xx(chip)
    THEN (IF p.REMAP # REMAP_NONE THEN <<"remap">> ELSE <<>>)
         \o <<"sck_mode", "mosi_mode", "miso_mode",
              "i2smod", "cr2", "cr1", "clock">>
    ELSE <<"sck_alt", "mosi_alt", "miso_alt",
           "sck_mode", "mosi_mode", "miso_mode", "i2smod", "cr2", "cr1",
           "clock">>

\* the statements HwInit executes, in order
HwInitProg(p, chip) ==
    IF ~F2xxF4xx(chip)
    THEN (IF p.REMAP # REMAP_NONE THEN <<"remap">> ELSE <<>>)
         \o <<"clock", "sck_mode", "mosi_mode", "miso_mode",
              "i2smod", "cr2", "cr1">>
    ELSE <<"clock", "sck_alt", "mosi_alt", "miso_alt",
           "sck_mode", "mosi_mode", "miso_mode", "i2smod", "cr2", "cr1">>

HwInitStmt(p, chip, stmt, h) ==
    CASE stmt = "remap" ->
            [h EXCEPT !.MAPR = BitOr(h.MAPR, SPIx_REMAP(p.NUMBER, chip))]
      [] stmt = "clock" -> EnableClocks(p.NUMBER, h)
      [] stmt = "sck_alt" -> PinAlternate(h, SCK(p), ALT_FUNC_SPIx(p.NUMBER))
      [] stmt = "mosi_alt" -> PinAlternate(h, MOSI(p), ALT_FUNC_SPIx(p.NUMBER))
      [] stmt = "miso_alt" -> PinAlternate(h, MISO(p), ALT_FUNC_SPIx(p.NUMBER))
      [] stmt = "sck_mode" -> PinMode(h, SCK(p), "ALT_OUTPUT")
      [] stmt = "mosi_mode" -> PinMode(h, MOSI(p), "ALT_OUTPUT")
      [] stmt = "miso_mode" ->
            PinMode(h, MISO(p),
                    IF F2xxF4xx(chip) THEN "ALT_OUTPUT" ELSE "INPUTPULLED")
      [] stmt = "i2smod" ->
            [h EXCEPT !.I2SCFGR =
                Half(BitAnd(h.I2SCFGR, BitNot(SPI_I2SCFGR_I2SMOD)))]
      [] stmt = "cr2" -> [h EXCEPT !.CR2 = 0]
      [] stmt = "cr1" -> [h EXCEPT !.CR1 = InitCR1(p)]

\* a slip: DisableClocks() is called first
HwDeinitProg_ClockFirst(p, chip) ==
    <<"clock", "cr2", "cr1">>
    \o (IF ~F2xxF4xx(chip) /\ p.REMAP # REMAP_NONE
        THEN <<"remap">> ELSE <<>>)
    \o <<"sck_mode", "mosi_mode", "miso_mode">>

\* a slip: MISO is left as it is
HwDeinitProg_NoMiso(p, chip) ==
    <<"cr2", "cr1">>
    \o (IF ~F2xxF4xx(chip) /\ p.REMAP # REMAP_NONE
        THEN <<"remap">> ELSE <<>>)
    \o <<"clock", "sck_mode", "mosi_mode">>

\* the statements HwDeinit executes, in order
HwDeinitProg(p, chip) ==
    <<"cr2", "cr1">>
    \o (IF ~F2xxF4xx(chip) /\ p.REMAP # REMAP_NONE
        THEN <<"remap">> ELSE <<>>)
    \o <<"clock", "sck_mode", "mosi_mode", "miso_mode">>

\* a slip: the remap mask is not inverted
HwDeinitStmt_RemapNoInvert(p, chip, stmt, h) ==
    CASE stmt = "cr2" -> [h EXCEPT !.CR2 = 0]
      [] stmt = "cr1" -> [h EXCEPT !.CR1 = 0]
      [] stmt = "remap" ->
            [h EXCEPT !.MAPR = BitAnd(h.MAPR, SPIx_REMAP(p.NUMBER, chip))]
      [] stmt = "clock" -> DisableClocks(p.NUMBER, h)
      [] stmt = "sck_mode" -> PinMode(h, SCK(p), "INPUT")
      [] stmt = "mosi_mode" -> PinMode(h, MOSI(p), "INPUT")
      [] stmt = "miso_mode" -> PinMode(h, MISO(p), "INPUT")

HwDeinitStmt(p, chip, stmt, h) ==
    CASE stmt = "cr2" -> [h EXCEPT !.CR2 = 0]
      [] stmt = "cr1" -> [h EXCEPT !.CR1 = 0]
      [] stmt = "remap" ->
            [h EXCEPT !.MAPR =
                BitAnd(h.MAPR, BitNot(SPIx_REMAP(p.NUMBER, chip)))]
      [] stmt = "clock" -> DisableClocks(p.NUMBER, h)
      [] stmt = "sck_mode" -> PinMode(h, SCK(p), "INPUT")
      [] stmt = "mosi_mode" -> PinMode(h, MOSI(p), "INPUT")
      [] stmt = "miso_mode" -> PinMode(h, MISO(p), "INPUT")

\* a whole call: statements i..Len(prog) applied in order
RECURSIVE HwInitFrom(_, _, _, _)
HwInitFrom(p, chip, i, h) ==
    IF i > Len(HwInitProg(p, chip)) THEN h
    ELSE HwInitFrom(p, chip, i + 1,
                    HwInitStmt(p, chip, HwInitProg(p, chip)[i], h))

RECURSIVE HwDeinitFrom(_, _, _, _)
HwDeinitFrom(p, chip, i, h) ==
    IF i > Len(HwDeinitProg(p, chip)) THEN h
    ELSE HwDeinitFrom(p, chip, i + 1,
                      HwDeinitStmt(p, chip, HwDeinitProg(p, chip)[i], h))

HwInit(p, chip, h) == HwInitFrom(p, chip, 1, h)
HwDeinit(p, chip, h) == HwDeinitFrom(p, chip, 1, h)

\* a slip: the branches are swapped
SetActive_Swapped(p, chip, h, on) ==
    IF on THEN HwDeinit(p, chip, h) ELSE HwInit(p, chip, h)

\* Spi::SetActive
SetActive(p, chip, h, on) ==
    IF on THEN HwInit(p, chip, h) ELSE HwDeinit(p, chip, h)

(***************************************************************************)
(* Bounds of the model.                                                    *)
(***************************************************************************)
\* tasks sharing one controller
NTasks == 2
\* register contents found at construction: patterns 0..MaxPrior
MaxPrior == 1
\* divisors passed to SetDivisor after construction: SPI_DIV_256 and the
\* first NDivArgs of the enumeration
NDivArgs == 1
\* SpiBase on a foreign register block: every value of the low CfgBits bits
\* of CR1 (CPHA, CPOL, MSTR, the divisor, SPE) is tried, with the bits above
\* them all clear or all set
CfgBits == 7
\* a task sends 0x00, 0xA5, 0xFF or one of 1..NBytes
NBytes == 5

(***************************************************************************)
(* State.                                                                  *)
(***************************************************************************)
VARIABLES
    props,      \* the props structure Spi<props> is instantiated with
    chip,       \* the build
    wire,       \* what MISO is wired to: "loopback" or "slave"
    tasks,      \* the tasks that use the controller
    disc,       \* per task: whether it transfers only while it holds the lock
    guarded,    \* the other calls a task with disc[t] makes only while it
                \* holds the lock
    role,       \* per task: the part of the interface it uses, or "any"
    bytes,      \* the byte values the tasks send and a slave answers
    hw,         \* registers and pin settings
    engine,     \* the serial engine: bytes written to DR and not yet exchanged
    mutex,      \* mutex_: the owning task, or 0
    held,       \* tasks that returned from Lock()/TryLock() and did not Unlock()
    pc,         \* per task: where it is
    out,        \* per task: the byte it sends while inside Rw, else Void
    ret,        \* the value the most recent completed call returned
    last,       \* the most recent completed call: "none" before the
                \* constructor has run, "Spi", "SpiBase", "SetActive(true)",
                \* "SetActive(false)", or the accessor's name (on a Spi<props>
                \* object, whose properties do not tell the other calls
                \* apart, "other")
    active,     \* argument of the most recent completed SetActive (construction: TRUE)
    snap,       \* registers and pins as Spi's constructor left them
                \* (the reset values until it has run)
    trip,       \* progress of a SetActive(false), SetActive(true) pair:
                \* "off" after SetActive(false), "off,on" when SetActive(true)
                \* is the very next call, with "changed," in front when CR1
                \* differed from snap.CR1 before the pair; "-" otherwise
    same,       \* the most recent completed call was a SetActive with the
                \* argument of the completed call before it (the constructor
                \* counting as SetActive(true))
    todo,       \* per task: the statements of the HwInit() or HwDeinit() it
                \* is running that it has not executed yet
    trace,      \* per task: the registers and pins stored to, in order, by
                \* the HwInit() or HwDeinit() it is running or ran last
    loc,        \* per task: the local value of the call it is running (the
                \* word an accessor is about to store, div of WaitTxDone)
    iters,      \* per task: iterations of the loop of WaitTxDone run so far
    done        \* per task, where the calls are logged: the accessor it
                \* completed last and the bits of the accessor's field in
                \* the word that call stored to CR1; <<>> when there is none

buildVars == <<props, chip, wire, tasks, disc, guarded, role, bytes>>
lockVars == <<mutex, held>>
histVars == <<last, active, snap, trip, same>>
stepVars == <<todo, trace, loc, iters, done>>
vars == <<props, chip, wire, tasks, disc, guarded, role, bytes, hw, engine, mutex, held,
          pc, out, ret, last, active, snap, trip, same, todo, trace, loc,
          iters, done>>

AllTasks == 1..NTasks

\* struct SampleSpiProps
SampleSpiProps ==
    [NUMBER |-> "SPI_1", REMAP |-> REMAP_NONE, InitialDivisor |-> SPI_DIV_32,
     InitialCPOL |-> CPOL_L, InitialCPHA |-> CPHA_1]

\* every props structure for which Spi<props> compiles
AllProps ==
    {p \in [NUMBER : SpiNum, REMAP : Remap, InitialDivisor : Divisor,
            InitialCPOL : Cpol, InitialCPHA : Cpha] :
        <<p.NUMBER, p.REMAP>> \in SpiPinsDefined}

\* builds that differ for the instantiation: the two legacy builds differ
\* only in SPIx_REMAP of SPI_3
Builds ==
    {b \in AllProps \X Chips : b[2] = "F10x_CL" => b[1].NUMBER = "SPI_3"}

Modes == <<"INPUT", "ALT_OUTPUT", "INPUTPULLED", "OUTPUT">>
AltFuncs == <<"AF0", "ALT_FUNC_SPI1", "ALT_FUNC_SPI2", "ALT_FUNC_SPI3">>

\* register contents before the driver touches them: all clear, all set,
\* alternating bits
PriorWord(k) ==
    CASE k % 4 = 0 -> 0
      [] k % 4 = 1 -> AllOnes
      [] k % 4 = 2 -> AllOnes \div 3
      [] k % 4 = 3 -> AllOnes - (AllOnes \div 3)

PriorHw(k) ==
    [CR1 |-> Half(PriorWord(k)), CR2 |-> Half(PriorWord(k)),
     I2SCFGR |-> Half(PriorWord(k)), SR |-> 0, DR |-> 0,
     APB1ENR |-> PriorWord(k), APB2ENR |-> PriorWord(k),
     MAPR |-> PriorWord(k),
     mode |-> [pin \in AllPins |-> Modes[(k % 4) + 1]],
     alt |-> [pin \in AllPins |-> AltFuncs[(k % 4) + 1]]]

BaseCR1 ==
    {lo + hi * (2^CfgBits) : lo \in 0..(2^CfgBits - 1),
                             hi \in {0, 2^(16 - CfgBits) - 1}}

\* no value: a call that returns void, a task that sends nothing
Void == -1
IdleEngine == [tx |-> <<>>, rxFrom |-> 0]

\* the peripheral's clock is running
Clocked(p, h) == BitAnd(h[ClockReg(p.NUMBER)], ClockBit(p.NUMBER)) # 0

(***************************************************************************)
(* Calls that run without interruption.  A call is made by a task that is  *)
(* not inside another call, on a constructed object.                       *)
(***************************************************************************)
CanCall(t) == t \in tasks /\ pc[t] = "idle" /\ last # "none"

Lifecycle == {"Spi", "SetActive(true)", "SetActive(false)"}
Accessors == {"Enable", "Disable", "SetDivisor", "GetDivisor",
              "SetCpol", "GetCpol", "SetCpha", "GetCpha", "WaitTxDone"}

TripAfter(op) ==
    CASE op = "SetActive(false)" ->
            IF hw.CR1 # snap.CR1 THEN "changed,off" ELSE "off"
      [] op = "SetActive(true)" /\ last = "SetActive(false)" -> trip \o ",on"
      [] OTHER -> "-"

SameAfter(op) ==
    \/ op = "SetActive(false)" /\ last = "SetActive(false)"
    \/ op = "SetActive(true)" /\ last \in {"Spi", "SetActive(true)"}

Returns(t, op, v) ==
    /\ out' = [out EXCEPT ![t] = Void]
    /\ ret' = v
    /\ last' = IF op \in Lifecycle \/ last = "SpiBase" \/ last \in Accessors
               THEN op ELSE "other"
    /\ trip' = TripAfter(op)
    /\ same' = SameAfter(op)
    /\ UNCHANGED <<buildVars, stepVars, engine, lockVars, pc>>

\* Spi::Spi(): the base class is constructed, the body runs HwInit()
Construct(t) ==
    /\ t \in tasks /\ pc[t] = "idle" /\ last = "none"
    /\ hw' = HwInit(props, chip, hw)
    /\ snap' = hw'
    /\ active' = TRUE
    /\ Returns(t, "Spi", Void)

CallSetActive(t, on) ==
    /\ CanCall(t)
    /\ hw' = SetActive(props, chip, hw, on)
    /\ active' = on
    /\ UNCHANGED snap
    /\ Returns(t, IF on THEN "SetActive(true)" ELSE "SetActive(false)", Void)

CallEnable(t) ==
    /\ CanCall(t)
    /\ hw' = Enable(hw)
    /\ UNCHANGED <<active, snap>>
    /\ Returns(t, "Enable", Void)

CallDisable(t) ==
    /\ CanCall(t)
    /\ hw' = Disable(hw)
    /\ UNCHANGED <<active, snap>>
    /\ Returns(t, "Disable", Void)

CallSetDivisor(t, div) ==
    /\ CanCall(t)
    /\ hw' = SetDivisor(hw, div)
    /\ UNCHANGED <<active, snap>>
    /\ Returns(t, "SetDivisor", Void)

CallSetCpol(t, pol) ==
    /\ CanCall(t)
    /\ hw' = SetCpol(hw, pol)
    /\ UNCHANGED <<active, snap>>
    /\ Returns(t, "SetCpol", Void)

CallSetCpha(t, pha) ==
    /\ CanCall(t)
    /\ hw' = SetCpha(hw, pha)
    /\ UNCHANGED <<active, snap>>
    /\ Returns(t, "SetCpha", Void)

CallGetDivisor(t) ==
    /\ CanCall(t)
    /\ UNCHANGED <<hw, active, snap>>
    /\ Returns(t, "GetDivisor", GetDivisor(hw))

CallGetCpol(t) ==
    /\ CanCall(t)
    /\ UNCHANGED <<hw, active, snap>>
    /\ Returns(t, "GetCpol", GetCpol(hw))

CallGetCpha(t) ==
    /\ CanCall(t)
    /\ UNCHANGED <<hw, active, snap>>
    /\ Returns(t, "GetCpha", GetCpha(hw))

(***************************************************************************)
(* Spec: one caller constructs a Spi<props> object, for every props        *)
(* structure and build, on registers holding anything, and then calls      *)
(* SetActive (which is HwInit() or HwDeinit()) and the accessors in any    *)
(* order.                                                                  *)
(***************************************************************************)
Init ==
    /\ \E b \in Builds : props = b[1] /\ chip = b[2]
    /\ wire = "loopback"
    /\ tasks = {1}
    /\ disc = [t \in AllTasks |-> FALSE]
    /\ guarded = {}
    /\ role = [t \in AllTasks |-> "any"]
    /\ bytes = {}
    /\ \E k \in 0..MaxPrior : hw = PriorHw(k)
    /\ engine = IdleEngine
    /\ mutex = 0
    /\ held = {}
    /\ pc = [t \in AllTasks |-> "idle"]
    /\ out = [t \in AllTasks |-> Void]
    /\ ret = Void
    /\ last = "none"
    /\ active = FALSE
    /\ snap = PriorHw(0)
    /\ trip = "-"
    /\ same = FALSE
    /\ todo = [t \in AllTasks |-> <<>>]
    /\ trace = [t \in AllTasks |-> <<>>]
    /\ loc = [t \in AllTasks |-> Void]
    /\ iters = [t \in AllTasks |-> 0]
    /\ done = [t \in AllTasks |-> <<>>]

DivArgs == {SPI_DIV_256} \cup {d \in Divisor : d \div 8 < NDivArgs}

Next ==
    \/ \E t \in tasks : Construct(t)
    \/ \E t \in tasks, on \in BOOLEAN : CallSetActive(t, on)
    \/ \E t \in tasks : CallEnable(t)
    \/ \E t \in tasks : CallDisable(t)
    \/ \E t \in tasks, div \in DivArgs : CallSetDivisor(t, div)
    \/ \E t \in tasks, pol \in Cpol : CallSetCpol(t, pol)
    \/ \E t \in tasks, pha \in Cpha : CallSetCpha(t, pha)

Spec == Init /\ [][Next]_vars

(***************************************************************************)
(* SpecBase: one caller uses a SpiBase object constructed on a register    *)
(* block whose CR1 holds anything (SpiBase's constructor writes no         *)
(* register).                                                              *)
(***************************************************************************)
InitBase ==
    /\ props = SampleSpiProps /\ chip = "F10x"
    /\ wire = "loopback"
    /\ tasks = {1}
    /\ disc = [t \in AllTasks |-> FALSE]
    /\ guarded = {}
    /\ role = [t \in AllTasks |-> "any"]
    /\ bytes = {}
    /\ \E w \in BaseCR1, k \in 0..MaxPrior :
          hw = [PriorHw(k) EXCEPT !.CR1 = w]
    /\ engine = IdleEngine
    /\ mutex = 0
    /\ held = {}
    /\ pc = [t \in AllTasks |-> "idle"]
    /\ out = [t \in AllTasks |-> Void]
    /\ ret = Void
    /\ last = "SpiBase"
    /\ active = FALSE
    /\ snap = PriorHw(0)
    /\ trip = "-"
    /\ same = FALSE
    /\ todo = [t \in AllTasks |-> <<>>]
    /\ trace = [t \in AllTasks |-> <<>>]
    /\ loc = [t \in AllTasks |-> Void]
    /\ iters = [t \in AllTasks |-> 0]
    /\ done = [t \in AllTasks |-> <<>>]

NextBase ==
    \/ \E t \in tasks : CallEnable(t)
    \/ \E t \in tasks : CallDisable(t)
    \/ \E t \in tasks, div \in Divisor : CallSetDivisor(t, div)
    \/ \E t \in tasks, pol \in Cpol : CallSetCpol(t, pol)
    \/ \E t \in tasks, pha \in Cpha : CallSetCpha(t, pha)
    \/ \E t \in tasks : CallGetDivisor(t)
    \/ \E t \in tasks : CallGetCpol(t)
    \/ \E t \in tasks : CallGetCpha(t)

SpecBase == InitBase /\ [][NextBase]_vars

(***************************************************************************)
(* The SPI peripheral, as Rw drives it.  A byte stored to DR waits in the  *)
(* transmit buffer (behind the byte in the shift register, if any); a      *)
(* master that is clocked and enabled exchanges the first waiting byte for *)
(* the byte on MISO, puts what it received in DR and sets RXNE; a load of  *)
(* DR clears RXNE.  Nothing obliges the hardware to complete an exchange.  *)
(* engine.rxFrom is the task whose byte the byte in DR answers.            *)
(***************************************************************************)
TxDepth == 2

RxneSet(h) == BitAnd(h.SR, SPI_SR_RXNE) # 0

DRStore(eng, b, t) ==
    [eng EXCEPT !.tx =
        IF Len(@) < TxDepth
        THEN Append(@, [byte |-> b, from |-> t])
        ELSE [@ EXCEPT ![TxDepth] = [byte |-> b, from |-> t]]]

MasterRunning ==
    /\ Clocked(props, hw)
    /\ BitAnd(hw.CR1, SPI_CR1_SPE) # 0
    /\ BitAnd(hw.CR1, SPI_CR1_MSTR) # 0

HwExchange ==
    /\ Len(engine.tx) > 0
    /\ MasterRunning
    /\ \E r \in (IF wire = "loopback" THEN {engine.tx[1].byte} ELSE bytes) :
          IF RxneSet(hw)
          THEN \* overrun: the byte received is lost
               /\ hw' = hw
               /\ engine' = [engine EXCEPT !.tx = Tail(@)]
          ELSE /\ hw' = [hw EXCEPT !.DR = r, !.SR = BitOr(@, SPI_SR_RXNE)]
               /\ engine' = [tx |-> Tail(engine.tx),
                             rxFrom |-> engine.tx[1].from]
    /\ UNCHANGED <<buildVars, stepVars, lockVars, pc, out, ret, histVars>>

(***************************************************************************)
(* OS::TMutex (scmRTOS): lock() takes a free mutex or suspends the caller  *)
(* until it can take it, try_lock() takes a free mutex or returns false,   *)
(* unlock() frees the mutex when the caller owns it.                       *)
(***************************************************************************)
mutex_lock(t) ==
    IF mutex = 0
    THEN mutex' = t /\ pc' = [pc EXCEPT ![t] = "idle"]
    ELSE mutex' = mutex /\ pc' = [pc EXCEPT ![t] = "lock_wait"]

mutex_try_lock(t) == mutex' = IF mutex = 0 THEN t ELSE mutex

mutex_unlock(t) == mutex' = IF mutex = t THEN 0 ELSE mutex

(***************************************************************************)
(* SpiBase::Lock, Unlock, TryLock.                                         *)
(***************************************************************************)
\* a slip: Lock() calls try_lock() and drops the result
Lock_TryOnly(t) ==
    /\ CanCall(t)
    /\ mutex_try_lock(t)
    /\ held' = held \cup {t}
    /\ out' = out /\ ret' = Void /\ last' = "other" /\ trip' = "-" /\ same' = FALSE
    /\ UNCHANGED <<buildVars, stepVars, hw, engine, pc, active, snap>>

\* Lock(): returns holding the lock, or suspends the caller
Lock(t) ==
    /\ CanCall(t)
    /\ mutex_lock(t)
    /\ IF pc'[t] = "idle"
       THEN /\ held' = held \cup {t}
            /\ ret' = Void /\ last' = "other" /\ trip' = "-" /\ same' = FALSE
       ELSE UNCHANGED <<held, ret, last, trip, same>>
    /\ UNCHANGED <<buildVars, stepVars, hw, engine, out, active, snap>>

\* a task suspended in Lock() is resumed
LockResume(t) ==
    /\ t \in tasks /\ pc[t] = "lock_wait"
    /\ mutex = 0
    /\ mutex_lock(t)
    /\ held' = held \cup {t}
    /\ ret' = Void /\ last' = "other" /\ trip' = "-" /\ same' = FALSE
    /\ UNCHANGED <<buildVars, stepVars, hw, engine, out, active, snap>>

\* a slip: TryLock() drops what try_lock() returned and reports success
TryLock_AlwaysTrue(t) ==
    /\ CanCall(t)
    /\ mutex_try_lock(t)
    /\ held' = held \cup {t}
    /\ ret' = 1
    /\ last' = "other" /\ trip' = "-" /\ same' = FALSE
    /\ UNCHANGED <<buildVars, stepVars, hw, engine, pc, out, active, snap>>

\* TryLock(): returns whether it took the lock; held is the set of tasks
\* that came back from Lock(), or from TryLock() with true, and have not
\* called Unlock() since
TryLock(t) ==
    /\ CanCall(t)
    /\ mutex_try_lock(t)
    /\ held' = IF mutex' = t /\ mutex = 0 THEN held \cup {t} ELSE held
    /\ ret' = IF mutex' = t /\ mutex = 0 THEN 1 ELSE 0
    /\ last' = "other" /\ trip' = "-" /\ same' = FALSE
    /\ UNCHANGED <<buildVars, stepVars, hw, engine, pc, out, active, snap>>

Unlock(t) ==
    /\ CanCall(t)
    /\ mutex_unlock(t)
    /\ held' = held \ {t}
    /\ ret' = Void /\ last' = "other" /\ trip' = "-" /\ same' = FALSE
    /\ UNCHANGED <<buildVars, stepVars, hw, engine, pc, out, active, snap>>

(***************************************************************************)
(* SpiBase::Rw, one register access at a time, and the operators that call *)
(* it.  A task with disc[t] starts a transfer only while it holds the      *)
(* lock.                                                                   *)
(***************************************************************************)
\* the default argument of Rw
FillByte == 255

MayTransfer(t) == CanCall(t) /\ (disc[t] => t \in held)

\* SPIx->DR = out
RwStore(t, b, at) ==
    /\ engine' = DRStore(engine, b, t)
    /\ out' = [out EXCEPT ![t] = b]
    /\ pc' = [pc EXCEPT ![t] = at]
    /\ UNCHANGED <<buildVars, stepVars, hw, lockVars, ret, histVars>>

Rw(t, b) == MayTransfer(t) /\ RwStore(t, b, "rw_poll")

\* operator uint8_t(): return Rw()
OperatorUint8(t) == MayTransfer(t) /\ RwStore(t, FillByte, "uint8_poll")

\* operator=(val): Rw(val); return *this
OperatorAssign(t, val) == MayTransfer(t) /\ RwStore(t, val, "assign_poll")

\* where each caller of Rw is before and after the loop
Polls == {"rw_poll", "uint8_poll", "assign_poll"}
Reads == {"rw_read", "uint8_read", "assign_read"}
ReadOf(at) == CASE at = "rw_poll" -> "rw_read"
                [] at = "uint8_poll" -> "uint8_read"
                [] at = "assign_poll" -> "assign_read"

\* a slip: the loop has an exit that does not test RXNE
RwPoll_GivesUp(t) ==
    /\ t \in tasks /\ pc[t] \in Polls
    /\ pc' = [pc EXCEPT ![t] = ReadOf(@)]
    /\ UNCHANGED <<buildVars, stepVars, hw, engine, lockVars, out, ret, histVars>>

\* while (!(SPIx->SR & SPI_SR_RXNE)) ;  the loop is left when a load of SR
\* shows RXNE; while it does not, the task stays where it is
RwPoll(t) ==
    /\ t \in tasks /\ pc[t] \in Polls
    /\ RxneSet(hw)
    /\ pc' = [pc EXCEPT ![t] = ReadOf(@)]
    /\ UNCHANGED <<buildVars, stepVars, hw, engine, lockVars, out, ret, histVars>>

\* return SPIx->DR
RwLoad(t, v) ==
    /\ hw' = [hw EXCEPT !.SR = BitAnd(@, BitNot(SPI_SR_RXNE))]
    /\ engine' = [engine EXCEPT !.rxFrom = 0]
    /\ pc' = [pc EXCEPT ![t] = "idle"]
    /\ out' = [out EXCEPT ![t] = Void]
    /\ ret' = v
    /\ last' = "other" /\ trip' = "-" /\ same' = FALSE
    /\ UNCHANGED <<buildVars, stepVars, lockVars, active, snap>>

\* a slip: Rw returns SR
RwRead_ReturnsSR(t) ==
    /\ t \in tasks /\ pc[t] \in {"rw_read", "uint8_read"}
    /\ RwLoad(t, hw.SR % 256)

\* Rw and operator uint8_t return the low byte of DR
RwRead(t) ==
    /\ t \in tasks /\ pc[t] \in {"rw_read", "uint8_read"}
    /\ RwLoad(t, hw.DR % 256)

\* operator= drops what Rw returned
AssignRead(t) == t \in tasks /\ pc[t] = "assign_read" /\ RwLoad(t, Void)

InRw(t) == pc[t] \in Polls \cup Reads

(***************************************************************************)
(* SpecTasks: NTasks tasks share a Spi<SampleSpiProps> object constructed  *)
(* on reset registers; they lock, unlock, transfer, enable and disable in  *)
(* any order.  SpecLocked: the same, and every task transfers only while   *)
(* it holds the lock.                                                      *)
(***************************************************************************)
\* besides Rw, the calls the callers are told to make under the lock, and
\* with them the other calls that store to CR1
Discipline == {"Disable", "SetActive"}
Guardable == Discipline \cup {"Enable", "SetDivisor", "SetCpol", "SetCpha"}

\* the tasks send 0xA5 (and 0x5A where the bytes of two tasks must be told
\* apart), so that a byte returned by Rw is never mistaken for the 0 or 1
\* returned by TryLock
LockBytes == {165}
TaskBytes == {165, 90}

InitGuarded(locked, bs, calls) ==
    /\ props = SampleSpiProps /\ chip = "F10x"
    /\ wire \in {"loopback", "slave"}
    /\ tasks = AllTasks
    /\ disc = [t \in AllTasks |-> locked]
    /\ guarded = calls
    /\ role = [t \in AllTasks |-> "any"]
    /\ bytes = bs
    /\ hw = HwInit(props, chip, PriorHw(0))
    /\ engine = IdleEngine
    /\ mutex = 0
    /\ held = {}
    /\ pc = [t \in AllTasks |-> "idle"]
    /\ out = [t \in AllTasks |-> Void]
    /\ ret = Void
    /\ last = "Spi"
    /\ active = TRUE
    /\ snap = hw
    /\ trip = "-"
    /\ same = FALSE
    /\ todo = [t \in AllTasks |-> <<>>]
    /\ trace = [t \in AllTasks |-> <<>>]
    /\ loc = [t \in AllTasks |-> Void]
    /\ iters = [t \in AllTasks |-> 0]
    /\ done = [t \in AllTasks |-> <<>>]

InitShared(locked, bs) ==
    InitGuarded(locked, bs, IF locked THEN Guardable ELSE {})

InitTasks == InitShared(FALSE, LockBytes)
InitLocked == InitShared(TRUE, TaskBytes)

NextTasks ==
    \/ \E t \in tasks : Lock(t)
    \/ \E t \in tasks : LockResume(t)
    \/ \E t \in tasks : TryLock(t)
    \/ \E t \in tasks : Unlock(t)
    \/ \E t \in tasks, b \in bytes : Rw(t, b)
    \/ \E t \in tasks : RwPoll(t)
    \/ \E t \in tasks : RwRead(t)
    \/ HwExchange
    \/ \E t \in tasks : CallDisable(t)
    \/ \E t \in tasks : CallEnable(t)

SpecTasks == InitTasks /\ [][NextTasks]_vars
SpecLocked == InitLocked /\ [][NextTasks]_vars

(***************************************************************************)
(* SpecRw: one task transfers bytes through a Spi<SampleSpiProps> object,  *)
(* by Rw and by the two operators, and may disable, enable, deactivate and *)
(* activate the peripheral between transfers.                              *)
(***************************************************************************)
RwBytes == {0, 165, FillByte} \cup (1..NBytes)

InitRw ==
    /\ props = SampleSpiProps /\ chip = "F10x"
    /\ wire \in {"loopback", "slave"}
    /\ tasks = {1}
    /\ disc = [t \in AllTasks |-> FALSE]
    /\ guarded = {}
    /\ role = [t \in AllTasks |-> "any"]
    /\ bytes = RwBytes
    /\ hw = HwInit(props, chip, PriorHw(0))
    /\ engine = IdleEngine
    /\ mutex = 0
    /\ held = {}
    /\ pc = [t \in AllTasks |-> "idle"]
    /\ out = [t \in AllTasks |-> Void]
    /\ ret = Void
    /\ last = "Spi"
    /\ active = TRUE
    /\ snap = hw
    /\ trip = "-"
    /\ same = FALSE
    /\ todo = [t \in AllTasks |-> <<>>]
    /\ trace = [t \in AllTasks |-> <<>>]
    /\ loc = [t \in AllTasks |-> Void]
    /\ iters = [t \in AllTasks |-> 0]
    /\ done = [t \in AllTasks |-> <<>>]

NextRw ==
    \/ \E t \in tasks, b \in bytes : Rw(t, b)
    \/ \E t \in tasks : OperatorUint8(t)
    \/ \E t \in tasks, val \in bytes : OperatorAssign(t, val)
    \/ \E t \in tasks : RwPoll(t)
    \/ \E t \in tasks : RwRead(t)
    \/ \E t \in tasks : AssignRead(t)
    \/ HwExchange
    \/ \E t \in tasks : CallDisable(t)
    \/ \E t \in tasks : CallEnable(t)
    \/ \E t \in tasks, on \in BOOLEAN : CallSetActive(t, on)

SpecRw == InitRw /\ [][NextRw]_vars

(***************************************************************************)
(* The accessors that store to CR1, one register access at a time: the     *)
(* load of CR1, which fixes the word to store, then the store.  pc[t] is   *)
(* the accessor's name while the store is pending, loc[t] the word.        *)
(***************************************************************************)
Rmw == {"Enable", "Disable", "SetDivisor", "SetCpol", "SetCpha"}

\* the bits of CR1 an accessor replaces
FieldOf(op) ==
    CASE op \in {"Enable", "Disable"} -> SPI_CR1_SPE
      [] op = "SetDivisor" -> SPI_DIV_256
      [] op = "SetCpol" -> SPI_CR1_CPOL
      [] op = "SetCpha" -> SPI_CR1_CPHA

\* a task that has promised to (disc) acts only while it holds the lock
UnderLock(t) == disc[t] => t \in held

\* a slip: the accessors go ahead only when nobody else holds the mutex
LoadCR1_TestsMutex(t, op, word) ==
    /\ CanCall(t)
    /\ mutex \in {0, t}
    /\ loc' = [loc EXCEPT ![t] = word]
    /\ pc' = [pc EXCEPT ![t] = op]
    /\ UNCHANGED <<buildVars, hw, engine, lockVars, out, ret, histVars,
                   todo, trace, iters,
                   done>>

LoadCR1(t, op, word) ==
    /\ CanCall(t)
    /\ loc' = [loc EXCEPT ![t] = word]
    /\ pc' = [pc EXCEPT ![t] = op]
    /\ UNCHANGED <<buildVars, hw, engine, lockVars, out, ret, histVars,
                   todo, trace, iters,
                   done>>

EnableLoad(t) == LoadCR1(t, "Enable", EnableWord(hw.CR1))
DisableLoad(t) == LoadCR1(t, "Disable", DisableWord(hw.CR1))
SetDivisorLoad(t, div) ==
    LoadCR1(t, "SetDivisor", SetDivisorWord(hw.CR1, div))
SetCpolLoad(t, pol) == LoadCR1(t, "SetCpol", SetCpolWord(hw.CR1, pol))
SetCphaLoad(t, pha) == LoadCR1(t, "SetCpha", SetCphaWord(hw.CR1, pha))

\* a slip: the store keeps the bits CR1 holds now and adds those of the word
CR1Store_Merge(t, logged) ==
    /\ t \in tasks /\ pc[t] \in Rmw
    /\ hw' = [hw EXCEPT !.CR1 = BitOr(@, loc[t])]
    /\ pc' = [pc EXCEPT ![t] = "idle"]
    /\ loc' = [loc EXCEPT ![t] = Void]
    /\ ret' = Void
    /\ last' = IF last = "SpiBase" \/ last \in Accessors
               THEN pc[t] ELSE "other"
    /\ trip' = "-" /\ same' = FALSE
    /\ done' = IF logged
               THEN [done EXCEPT
                        ![t] = <<pc[t], BitAnd(loc[t], FieldOf(pc[t]))>>]
               ELSE done
    /\ UNCHANGED <<buildVars, engine, lockVars, out, active, snap,
                   todo, trace, iters>>

\* SPIx->CR1 = the word computed from the value loaded; the call is noted
\* in done when it is logged
CR1Store(t, logged) ==
    /\ t \in tasks /\ pc[t] \in Rmw
    /\ hw' = [hw EXCEPT !.CR1 = loc[t]]
    /\ pc' = [pc EXCEPT ![t] = "idle"]
    /\ loc' = [loc EXCEPT ![t] = Void]
    /\ ret' = Void
    /\ last' = IF last = "SpiBase" \/ last \in Accessors
               THEN pc[t] ELSE "other"
    /\ trip' = "-" /\ same' = FALSE
    /\ done' = IF logged
               THEN [done EXCEPT
                        ![t] = <<pc[t], BitAnd(loc[t], FieldOf(pc[t]))>>]
               ELSE done
    /\ UNCHANGED <<buildVars, engine, lockVars, out, active, snap,
                   todo, trace, iters>>

StoreCR1(t) == CR1Store(t, FALSE)
StoreCR1Logged(t) == CR1Store(t, TRUE)

(***************************************************************************)
(* The constructor and SetActive, one statement of HwInit or HwDeinit at a *)
(* time.  pc[t] is the call's name while it runs, todo[t] the statements   *)
(* left, trace[t] what the call has stored to.  The call returns with its  *)
(* last statement.  (trip is kept by the calls that run without            *)
(* interruption only.)                                                     *)
(***************************************************************************)
\* the register or pin setting a statement stores to
StmtTarget(p, stmt) ==
    CASE stmt = "remap" -> <<"reg", "MAPR">>
      [] stmt = "clock" -> <<"reg", ClockReg(p.NUMBER)>>
      [] stmt = "sck_alt" -> <<"alt", SCK(p)>>
      [] stmt = "mosi_alt" -> <<"alt", MOSI(p)>>
      [] stmt = "miso_alt" -> <<"alt", MISO(p)>>
      [] stmt = "sck_mode" -> <<"mode", SCK(p)>>
      [] stmt = "mosi_mode" -> <<"mode", MOSI(p)>>
      [] stmt = "miso_mode" -> <<"mode", MISO(p)>>
      [] stmt = "i2smod" -> <<"reg", "I2SCFGR">>
      [] stmt = "cr2" -> <<"reg", "CR2">>
      [] stmt = "cr1" -> <<"reg", "CR1">>

Enter(t, op, prog) ==
    /\ pc' = [pc EXCEPT ![t] = op]
    /\ todo' = [todo EXCEPT ![t] = prog]
    /\ trace' = [trace EXCEPT ![t] = <<>>]
    /\ UNCHANGED <<buildVars, hw, engine, lockVars, out, ret, histVars,
                   loc, iters,
                   done>>

\* Spi::Spi() is entered
ConstructStart(t) ==
    /\ t \in tasks /\ last = "none"
    /\ \A u \in tasks : pc[u] = "idle"
    /\ Enter(t, "Spi", HwInitProg(props, chip))

\* SetActive(on) is entered
SetActiveStart(t, on) ==
    /\ CanCall(t)
    /\ IF on THEN Enter(t, "SetActive(true)", HwInitProg(props, chip))
             ELSE Enter(t, "SetActive(false)", HwDeinitProg(props, chip))

\* the next statement is executed; after the last one the call returns
Step(t, h) ==
    /\ hw' = h
    /\ todo' = [todo EXCEPT ![t] = Tail(@)]
    /\ trace' = [trace EXCEPT ![t] =
                    Append(@, StmtTarget(props, Head(todo[t])))]
    /\ IF Len(todo[t]) > 1
       THEN UNCHANGED <<pc, ret, histVars>>
       ELSE /\ pc' = [pc EXCEPT ![t] = "idle"]
            /\ ret' = Void
            /\ last' = pc[t]
            /\ active' = IF pc[t] \in Lifecycle
                         THEN pc[t] # "SetActive(false)" ELSE active
            /\ snap' = IF pc[t] = "Spi" THEN h ELSE snap
            /\ trip' = "-"
            /\ same' = SameAfter(pc[t])
    /\ UNCHANGED <<buildVars, engine, lockVars, out, loc, iters,
                   done>>

\* HwInit() and HwDeinit() are public: a caller enters them directly
HwInitStart(t) == CanCall(t) /\ Enter(t, "HwInit", HwInitProg(props, chip))
HwDeinitStart(t) ==
    CanCall(t) /\ Enter(t, "HwDeinit", HwDeinitProg(props, chip))

\* the calls that run HwInit or HwDeinit
InHwInit == {"Spi", "SetActive(true)", "HwInit"}
InHwDeinit == {"SetActive(false)", "HwDeinit"}

HwInitStep(t) ==
    /\ t \in tasks /\ pc[t] \in InHwInit
    /\ todo[t] # <<>>
    /\ Step(t, HwInitStmt(props, chip, Head(todo[t]), hw))

HwDeinitStep(t) ==
    /\ t \in tasks /\ pc[t] \in InHwDeinit
    /\ todo[t] # <<>>
    /\ Step(t, HwDeinitStmt(props, chip, Head(todo[t]), hw))

(***************************************************************************)
(* SpecSteps: one caller constructs a Spi<props> object, for every props   *)
(* structure and build, on registers holding anything, and then calls      *)
(* SetActive in any order; every statement of HwInit and HwDeinit is a     *)
(* step.                                                                   *)
(***************************************************************************)
NextSteps ==
    \/ \E t \in tasks : ConstructStart(t)
    \/ \E t \in tasks, on \in BOOLEAN : SetActiveStart(t, on)
    \/ \E t \in tasks : HwInitStep(t)
    \/ \E t \in tasks : HwDeinitStep(t)

SpecSteps == Init /\ [][NextSteps]_vars

(***************************************************************************)
(* SpiBase::WaitTxDone, one evaluation of the loop condition at a time.    *)
(* loc[t] is the local div, iters[t] counts the executions of the body.    *)
(***************************************************************************)
\* uint32_t div = GetDivisor() >> 3
WaitTxDoneEnter(t) ==
    /\ CanCall(t)
    /\ loc' = [loc EXCEPT ![t] = GetDivisor(hw) \div (2^3)]
    /\ iters' = [iters EXCEPT ![t] = 0]
    /\ pc' = [pc EXCEPT ![t] = "wait"]
    /\ UNCHANGED <<buildVars, hw, engine, lockVars, out, ret, histVars,
                   todo, trace,
                   done>>

\* a slip: div is not shifted
WaitTxDoneLoop_NoShift(t) ==
    /\ t \in tasks /\ pc[t] = "wait"
    /\ loc[t] # 0
    /\ iters' = [iters EXCEPT ![t] = @ + 1]
    /\ UNCHANGED <<buildVars, hw, engine, lockVars, pc, out, ret, histVars,
                   todo, trace, loc,
                   done>>

\* div is not zero: nop; div >>= 1
WaitTxDoneLoop(t) ==
    /\ t \in tasks /\ pc[t] = "wait"
    /\ loc[t] # 0
    /\ loc' = [loc EXCEPT ![t] = @ \div 2]
    /\ iters' = [iters EXCEPT ![t] = @ + 1]
    /\ UNCHANGED <<buildVars, hw, engine, lockVars, pc, out, ret, histVars,
                   todo, trace,
                   done>>

\* div is zero: the call returns
WaitTxDoneExit(t) ==
    /\ t \in tasks /\ pc[t] = "wait"
    /\ loc[t] = 0
    /\ pc' = [pc EXCEPT ![t] = "idle"]
    /\ loc' = [loc EXCEPT ![t] = Void]
    /\ ret' = Void
    /\ last' = IF last = "SpiBase" \/ last \in Accessors
               THEN "WaitTxDone" ELSE "other"
    /\ trip' = "-" /\ same' = FALSE
    /\ UNCHANGED <<buildVars, hw, engine, lockVars, out, active, snap,
                   todo, trace, iters,
                   done>>

(***************************************************************************)
(* SpecWait: tasks call WaitTxDone and SetDivisor on a SpiBase object      *)
(* whose CR1 and SR hold anything.  SpecWaitFair: the same, and a task     *)
(* inside WaitTxDone keeps running.                                        *)
(***************************************************************************)
InitWait ==
    /\ props = SampleSpiProps /\ chip = "F10x"
    /\ wire = "loopback"
    /\ tasks = AllTasks
    /\ disc = [t \in AllTasks |-> FALSE]
    /\ guarded = {}
    /\ role = [t \in AllTasks |-> "any"]
    /\ bytes = {}
    /\ \E d \in Divisor, k \in 0..MaxPrior :
          hw = [PriorHw(k) EXCEPT !.CR1 = SetDivisorWord(@, d),
                                  !.SR = Half(PriorWord(k))]
    /\ engine = IdleEngine
    /\ mutex = 0
    /\ held = {}
    /\ pc = [t \in AllTasks |-> "idle"]
    /\ out = [t \in AllTasks |-> Void]
    /\ ret = Void
    /\ last = "SpiBase"
    /\ active = FALSE
    /\ snap = PriorHw(0)
    /\ trip = "-"
    /\ same = FALSE
    /\ todo = [t \in AllTasks |-> <<>>]
    /\ trace = [t \in AllTasks |-> <<>>]
    /\ loc = [t \in AllTasks |-> Void]
    /\ iters = [t \in AllTasks |-> 0]
    /\ done = [t \in AllTasks |-> <<>>]

NextWait ==
    \/ \E t \in tasks : WaitTxDoneEnter(t)
    \/ \E t \in tasks : WaitTxDoneLoop(t)
    \/ \E t \in tasks : WaitTxDoneExit(t)
    \/ \E t \in tasks, div \in DivArgs : CallSetDivisor(t, div)

SpecWait == InitWait /\ [][NextWait]_vars

SpecWaitFair ==
    /\ SpecWait
    /\ \A t \in AllTasks : WF_vars(WaitTxDoneLoop(t) \/ WaitTxDoneExit(t))

(***************************************************************************)
(* SpecMixed: every task locks and unlocks; task 1 transfers; the other    *)
(* tasks configure, wait, deactivate and activate, with every register     *)
(* access a step of its own.  MISO is wired to MOSI.                       *)
(***************************************************************************)
Transferring == {1}
Configuring == AllTasks \ Transferring

NextMixed ==
    \/ \E t \in tasks : Lock(t)
    \/ \E t \in tasks : LockResume(t)
    \/ \E t \in tasks : TryLock(t)
    \/ \E t \in tasks : Unlock(t)
    \/ \E t \in Transferring, b \in bytes : Rw(t, b)
    \/ \E t \in tasks : RwPoll(t)
    \/ \E t \in tasks : RwRead(t)
    \/ HwExchange
    \/ \E t \in Configuring : EnableLoad(t)
    \/ \E t \in Configuring : DisableLoad(t)
    \/ \E t \in Configuring : SetDivisorLoad(t, SPI_DIV_256)
    \/ \E t \in Configuring : SetCpolLoad(t, CPOL_H)
    \/ \E t \in Configuring : SetCphaLoad(t, CPHA_2)
    \/ \E t \in tasks : StoreCR1(t)
    \/ \E t \in Configuring : WaitTxDoneEnter(t)
    \/ \E t \in tasks : WaitTxDoneLoop(t)
    \/ \E t \in tasks : WaitTxDoneExit(t)
    \/ \E t \in Configuring, on \in BOOLEAN : SetActiveStart(t, on)
    \/ \E t \in tasks : HwInitStep(t)
    \/ \E t \in tasks : HwDeinitStep(t)

InitMixed == InitTasks /\ wire = "loopback"

SpecMixed == InitMixed /\ [][NextMixed]_vars

(***************************************************************************)
(* SpecCfg: tasks call the accessors that store to CR1, each task those of *)
(* its own field, one register access at a time; either every task        *)
(* brackets each call with Lock() and Unlock(), or none uses the lock.     *)
(***************************************************************************)
\* the accessors a task calls: no two tasks store to the same field, and
\* a third task only locks and unlocks
CfgCalls(t) ==
    CASE t = 1 -> {"SetCpol", "Enable", "Disable"}
      [] t = 2 -> {"SetCpha", "SetDivisor"}
      [] OTHER -> {}

CfgCall(t, op) == op \in CfgCalls(t) /\ UnderLock(t)

InitCfg == \E locked \in BOOLEAN :
    InitShared(locked, {}) /\ wire = "loopback"

NextCfg ==
    \/ \E t \in tasks : disc[t] /\ Lock(t)
    \/ \E t \in tasks : LockResume(t)
    \/ \E t \in tasks : disc[t] /\ Unlock(t)
    \/ \E t \in tasks : CfgCall(t, "Enable") /\ EnableLoad(t)
    \/ \E t \in tasks : CfgCall(t, "Disable") /\ DisableLoad(t)
    \/ \E t \in tasks, div \in DivArgs :
          CfgCall(t, "SetDivisor") /\ SetDivisorLoad(t, div)
    \/ \E t \in tasks, pol \in Cpol :
          CfgCall(t, "SetCpol") /\ SetCpolLoad(t, pol)
    \/ \E t \in tasks, pha \in Cpha :
          CfgCall(t, "SetCpha") /\ SetCphaLoad(t, pha)
    \/ \E t \in tasks : StoreCR1Logged(t)

SpecCfg == InitCfg /\ [][NextCfg]_vars

(***************************************************************************)
(* SpecLive: task 1 transfers, every task locks, unlocks, enables,         *)
(* disables, sets the clock polarity and calls SetActive, on a loopback.   *)
(* Either no task uses the lock for anything but Lock and Unlock           *)
(* themselves, or every task holds it around Rw, Disable and SetActive, or *)
(* every task holds it around these and around every other call that       *)
(* stores to CR1.  A transfer is started in the Active, enabled state, and *)
(* a task does not call Lock() while it holds the lock.  The scheduler is  *)
(* fair, the hardware completes the exchange of a byte written to DR while *)
(* the peripheral is clocked, enabled and a master, and a task that holds  *)
(* the lock and is not inside a call unlocks.                              *)
(***************************************************************************)
Guarded(t, op) == disc[t] /\ op \in guarded => t \in held

InitLive == \E calls \in {Discipline, Guardable} :
    InitGuarded(TRUE, LockBytes, calls) /\ wire = "loopback"

NextLive ==
    \/ \E t \in tasks : t \notin held /\ Lock(t)
    \/ \E t \in tasks : LockResume(t)
    \/ \E t \in tasks : t \in held /\ Unlock(t)
    \/ \E t \in Transferring, b \in bytes : MasterRunning /\ Rw(t, b)
    \/ \E t \in tasks : RwPoll(t)
    \/ \E t \in tasks : RwRead(t)
    \/ HwExchange
    \/ \E t \in tasks : Guarded(t, "Enable") /\ EnableLoad(t)
    \/ \E t \in tasks : Guarded(t, "Disable") /\ DisableLoad(t)
    \/ \E t \in tasks : Guarded(t, "SetCpol") /\ SetCpolLoad(t, CPOL_H)
    \/ \E t \in tasks : StoreCR1(t)
    \/ \E t \in tasks, on \in BOOLEAN :
          Guarded(t, "SetActive") /\ CallSetActive(t, on)

FairLive ==
    /\ WF_vars(HwExchange)
    /\ \A t \in AllTasks :
          /\ WF_vars(RwPoll(t))
          /\ WF_vars(RwRead(t))
          /\ WF_vars(StoreCR1(t))
          /\ SF_vars(LockResume(t))
          /\ SF_vars(t \in held /\ Unlock(t))

SpecLive == InitLive /\ [][NextLive]_vars /\ FairLive

(***************************************************************************)
(* SpecAll: a Spi<props> object, for every instance, remap and build (with *)
(* the initial divisor, polarity and phase of the sample props), on        *)
(* registers and pins holding anything, is constructed and then used by    *)
(* the tasks through every public operation, one register access or one    *)
(* statement of HwInit/HwDeinit at a time.  One task calls the             *)
(* constructor, SetActive, HwInit() and HwDeinit(), so that none of them   *)
(* is entered while another is running; each of the other tasks calls the  *)
(* operations of one part of the interface.                                *)
(***************************************************************************)
PinBuilds ==
    {b \in Builds :
        /\ b[1].InitialDivisor = SampleSpiProps.InitialDivisor
        /\ b[1].InitialCPOL = SampleSpiProps.InitialCPOL
        /\ b[1].InitialCPHA = SampleSpiProps.InitialCPHA}

\* task 1 constructs the object and sets its configuration; each of the
\* other tasks uses one part of the interface
UserRoles == {"lock", "transfer", "enable", "divisor", "polarity", "phase"}

Quiet == \A u \in tasks : pc[u] \notin InHwInit \cup InHwDeinit

InitAll ==
    /\ \E b \in PinBuilds : props = b[1] /\ chip = b[2]
    /\ wire = "loopback"
    /\ tasks = AllTasks
    /\ disc = [t \in AllTasks |-> FALSE]
    /\ guarded = {}
    /\ role \in [AllTasks -> {"owner"} \cup UserRoles]
    /\ \A t \in AllTasks : role[t] = "owner" <=> t = 1
    /\ bytes = LockBytes
    /\ \E k \in 0..MaxPrior : hw = PriorHw(k)
    /\ engine = IdleEngine
    /\ mutex = 0
    /\ held = {}
    /\ pc = [t \in AllTasks |-> "idle"]
    /\ out = [t \in AllTasks |-> Void]
    /\ ret = Void
    /\ last = "none"
    /\ active = FALSE
    /\ snap = hw
    /\ trip = "-"
    /\ same = FALSE
    /\ todo = [t \in AllTasks |-> <<>>]
    /\ trace = [t \in AllTasks |-> <<>>]
    /\ loc = [t \in AllTasks |-> Void]
    /\ iters = [t \in AllTasks |-> 0]
    /\ done = [t \in AllTasks |-> <<>>]

Uses(t, part) == t \in tasks /\ role[t] = part

\* the lock is used by the tasks whose part it is and, when there is one,
\* by the owner too
UsesLock(t) ==
    \/ Uses(t, "lock")
    \/ Uses(t, "owner") /\ \E u \in tasks : Uses(u, "lock")

NextAll ==
    \/ \E t \in tasks : Uses(t, "owner") /\ ConstructStart(t)
    \/ \E t \in tasks, on \in BOOLEAN :
          Uses(t, "owner") /\ SetActiveStart(t, on)
    \/ \E t \in tasks : Uses(t, "owner") /\ HwInitStart(t)
    \/ \E t \in tasks : Uses(t, "owner") /\ HwDeinitStart(t)
    \/ \E t \in tasks : HwInitStep(t)
    \/ \E t \in tasks : HwDeinitStep(t)
    \/ \E t \in tasks : UsesLock(t) /\ Lock(t)
    \/ \E t \in tasks : LockResume(t)
    \/ \E t \in tasks : UsesLock(t) /\ TryLock(t)
    \/ \E t \in tasks : UsesLock(t) /\ Unlock(t)
    \/ \E t \in tasks, b \in bytes : Uses(t, "transfer") /\ Rw(t, b)
    \/ \E t \in tasks : RwPoll(t)
    \/ \E t \in tasks : RwRead(t)
    \/ HwExchange
    \/ \E t \in tasks : Uses(t, "enable") /\ EnableLoad(t)
    \/ \E t \in tasks : Uses(t, "enable") /\ DisableLoad(t)
    \/ \E t \in tasks : Uses(t, "divisor") /\ SetDivisorLoad(t, SPI_DIV_256)
    \/ \E t \in tasks : Uses(t, "polarity") /\ SetCpolLoad(t, CPOL_H)
    \/ \E t \in tasks : Uses(t, "phase") /\ SetCphaLoad(t, CPHA_2)
    \/ \E t \in tasks : StoreCR1(t)
    \/ \E t \in tasks : Uses(t, "divisor") /\ CallGetDivisor(t)
    \/ \E t \in tasks : Uses(t, "polarity") /\ CallGetCpol(t)
    \/ \E t \in tasks : Uses(t, "phase") /\ CallGetCpha(t)
    \/ \E t \in tasks : Uses(t, "divisor") /\ WaitTxDoneEnter(t)
    \/ \E t \in tasks : WaitTxDoneLoop(t)
    \/ \E t \in tasks : WaitTxDoneExit(t)

SpecAll == InitAll /\ [][NextAll]_vars

(***************************************************************************)
(* Properties.                                                             *)
(***************************************************************************)
\* bits lo .. lo+n-1 of a word, in place, and the word without them
Field(w, lo, n) == ((w \div (2^lo)) % (2^n)) * (2^lo)
Without(w, lo, n) == w - Field(w, lo, n)

RolePins(p) == {SCK(p), MOSI(p), MISO(p)}

\* C1: when the constructor or a SetActive(true) has just completed, CR1 is
\* exactly MSTR | SSM | SSI | SPE | InitialDivisor | InitialCPOL |
\* InitialCPHA (the masks are disjoint bits, so their sum) and CR2 is 0,
\* whatever the registers held before.
C1_InitRegisters ==
    last \in {"Spi", "SetActive(true)"} =>
        /\ hw.CR1 = SPI_CR1_MSTR + SPI_CR1_SSM + SPI_CR1_SSI + SPI_CR1_SPE
                    + props.InitialDivisor + props.InitialCPOL
                    + props.InitialCPHA
        /\ hw.CR2 = 0

\* SetActive(true) has completed on registers that were all ones at
\* construction (I2SCFGR keeps every bit but I2SMOD), with every
\* configurable bit of CR1 set
C1_Witness ==
    /\ last = "SetActive(true)"
    /\ props.InitialDivisor = SPI_DIV_256
    /\ props.InitialCPOL = CPOL_H /\ props.InitialCPHA = CPHA_2
    /\ hw.I2SCFGR = 65535 - SPI_I2SCFGR_I2SMOD
    /\ hw.CR1 = 895 /\ hw.CR2 = 0

\* C4: when SetActive(true) directly follows SetActive(false), CR1 is what
\* the constructor left, the peripheral clock is enabled and the three role
\* pins have the modes (and function slots) the constructor gave them,
\* whatever the accessors did before.
C4_RoundTrip ==
    trip \in {"off,on", "changed,off,on"} =>
        /\ hw.CR1 = snap.CR1
        /\ Clocked(props, hw)
        /\ \A pin \in RolePins(props) :
              hw.mode[pin] = snap.mode[pin] /\ hw.alt[pin] = snap.alt[pin]

\* the pair has run after accessors had changed CR1, on a remapped SPI_3
C4_Witness ==
    /\ trip = "changed,off,on"
    /\ props.NUMBER = "SPI_3" /\ props.REMAP = REMAP_FULL
    /\ hw.CR1 = snap.CR1
    /\ hw.mode["C10"] = "ALT_OUTPUT"

\* C5: when a SetActive(false) has just completed, CR1 and CR2 are 0, the
\* peripheral's clock-enable bit is 0 and SCK, MOSI and MISO are in INPUT
\* mode.
C5_DeinitState ==
    last = "SetActive(false)" =>
        /\ hw.CR1 = 0 /\ hw.CR2 = 0
        /\ ~Clocked(props, hw)
        /\ \A pin \in RolePins(props) : hw.mode[pin] = "INPUT"

\* SetActive(false) has completed for SPI_3 on an APB1ENR that was all ones:
\* only the SPI_3 bit is clear
C5_Witness ==
    /\ last = "SetActive(false)"
    /\ props.NUMBER = "SPI_3"
    /\ hw.APB1ENR = AllOnes - RCC_APB1ENR_SPI3EN
    /\ hw.CR1 = 0 /\ hw.mode[MISO(props)] = "INPUT"

\* C6: a SetDivisor(d) run without interruption leaves a CR1 from which
\* GetDivisor() computes d, with every bit outside bits 3..5 (CPOL and CPHA
\* among them) as before; GetDivisor() returns bits 3..5 of CR1.
C6_SetDivisor ==
    [][/\ \A t \in AllTasks, d \in Divisor :
             CallSetDivisor(t, d) =>
                 /\ GetDivisor(hw') = d
                 /\ Without(hw'.CR1, 3, 3) = Without(hw.CR1, 3, 3)
                 /\ Field(hw'.CR1, 0, 2) = Field(hw.CR1, 0, 2)
       /\ \A t \in AllTasks :
             CallGetDivisor(t) => ret' = Field(hw.CR1, 3, 3)]_vars

\* SetDivisor(SPI_DIV_8) has run on a CR1 whose other bits are all set
C6_Witness ==
    /\ last = "SetDivisor"
    /\ hw.CR1 = 65535 - SPI_DIV_256 + SPI_DIV_8

\* C7: SetCpol(p) run without interruption makes GetCpol() p and leaves
\* every other bit of CR1 (CPHA and the divisor among them) as before;
\* SetCpha(h) makes GetCpha() h and leaves every other bit (CPOL and the
\* divisor among them) as before.
C7_CpolCphaIndependent ==
    [][/\ \A t \in AllTasks, p \in Cpol :
             CallSetCpol(t, p) =>
                 /\ GetCpol(hw') = p
                 /\ GetCpha(hw') = GetCpha(hw)
                 /\ GetDivisor(hw') = GetDivisor(hw)
                 /\ Without(hw'.CR1, 1, 1) = Without(hw.CR1, 1, 1)
       /\ \A t \in AllTasks, h \in Cpha :
             CallSetCpha(t, h) =>
                 /\ GetCpha(hw') = h
                 /\ GetCpol(hw') = GetCpol(hw)
                 /\ GetDivisor(hw') = GetDivisor(hw)
                 /\ Without(hw'.CR1, 0, 1) = Without(hw.CR1, 0, 1)
       /\ \A t \in AllTasks :
             /\ CallGetCpol(t) => ret' = Field(hw.CR1, 1, 1)
             /\ CallGetCpha(t) => ret' = Field(hw.CR1, 0, 1)]_vars

\* SetCpol(CPOL_L) has run on a CR1 whose other bits are all set: CPHA and
\* the divisor are still set
C7_Witness ==
    /\ last = "SetCpol"
    /\ hw.CR1 = 65535 - SPI_CR1_CPOL

\* C10: Enable() changes CR1 only by setting SPE and Disable() only by
\* clearing it; CR2, the RCC and AFIO registers and every pin setting are as
\* before.
C10_EnableDisableFrame ==
    [][\A t \in AllTasks :
          /\ CallEnable(t) =>
                /\ Field(hw'.CR1, 6, 1) = SPI_CR1_SPE
                /\ Without(hw'.CR1, 6, 1) = Without(hw.CR1, 6, 1)
                /\ [hw' EXCEPT !.CR1 = 0] = [hw EXCEPT !.CR1 = 0]
          /\ CallDisable(t) =>
                /\ Field(hw'.CR1, 6, 1) = 0
                /\ Without(hw'.CR1, 6, 1) = Without(hw.CR1, 6, 1)
                /\ [hw' EXCEPT !.CR1 = 0] = [hw EXCEPT !.CR1 = 0]]_vars

\* Disable() has run on a CR1 that was all ones, beside RCC and AFIO
\* registers that are all ones
C10_Witness ==
    /\ last = "Disable"
    /\ hw.CR1 = 65535 - SPI_CR1_SPE
    /\ hw.APB2ENR = AllOnes /\ hw.MAPR = AllOnes

(***************************************************************************)
(* C2.  At most one task holds the lock in every reachable state.  Lock()  *)
(* on a free lock returns at once with the caller as the only holder;      *)
(* Lock() on a held lock suspends the caller and changes no holder; a      *)
(* suspended caller stays suspended while the lock is held, can be resumed *)
(* as soon as it is free, and is then the only holder.  TryLock() on a     *)
(* held lock returns false, suspends nobody and leaves the holder as it    *)
(* was; on a free lock it returns true with the caller as the holder.      *)
(***************************************************************************)
C2_StepRules ==
    \A t \in AllTasks :
        /\ Lock(t) /\ held = {} => pc'[t] = "idle" /\ held' = {t}
        /\ Lock(t) /\ held # {} =>
               pc'[t] = "lock_wait" /\ held' = held /\ mutex' = mutex
        /\ pc[t] = "lock_wait" /\ held # {} => pc'[t] = "lock_wait"
        /\ pc[t] = "lock_wait" /\ pc'[t] # "lock_wait" =>
               held = {} /\ held' = {t} /\ pc'[t] = "idle"
        /\ TryLock(t) /\ held # {} =>
               ret' = 0 /\ pc' = pc /\ held' = held /\ mutex' = mutex
        /\ TryLock(t) /\ held = {} => ret' = 1 /\ pc' = pc /\ held' = {t}
        /\ t \notin held /\ t \in held' => held = {}

C2_MutualExclusion ==
    /\ [](Cardinality(held) <= 1)
    /\ [](\A t \in AllTasks :
            pc[t] = "lock_wait" /\ held = {} => ENABLED LockResume(t))
    /\ [][C2_StepRules]_vars

\* task 1 holds the lock; task 2 called TryLock(), got false, then called
\* Lock() and is suspended in it
C2_Witness ==
    /\ held = {1} /\ mutex = 1
    /\ pc[1] = "idle"
    /\ pc[2] = "lock_wait"
    /\ ret = 0 /\ last = "other"

(***************************************************************************)
(* C3.  When every task transfers only while it holds the lock: a task     *)
(* inside Rw is the only holder, so at most one task is inside Rw; while a *)
(* task holds the lock no other task stores to DR or loads DR; and the     *)
(* byte Rw loads from DR is the one received for the byte that same call   *)
(* stored (on a loopback, that byte itself).                               *)
(***************************************************************************)
C3_StepRules ==
    \A t \in AllTasks :
        /\ \A u \in AllTasks \ {t} :
              t \in held =>
                 /\ ~(pc[u] = "idle" /\ pc'[u] \in Polls)
                 /\ ~(pc[u] \in Reads /\ pc'[u] = "idle")
                 /\ \A i \in 1..Len(engine'.tx) : engine'.tx[i].from # u
        /\ pc[t] \in Reads /\ pc'[t] = "idle" =>
              /\ RxneSet(hw)
              /\ engine.rxFrom = t
              /\ ret' = hw.DR % 256
              /\ wire = "loopback" => ret' = out[t]

C3_Serialized ==
    /\ [](\A t \in AllTasks : InRw(t) => held = {t})
    /\ [](Cardinality({t \in AllTasks : InRw(t)}) <= 1)
    /\ [][C3_StepRules]_vars

\* task 2 has transferred 0xA5 on a loopback under the lock while task 1
\* waits for the lock
C3_Witness ==
    /\ \A t \in AllTasks : disc[t]
    /\ wire = "loopback"
    /\ held = {2}
    /\ pc[1] = "lock_wait" /\ pc[2] = "idle"
    /\ ret = 165 /\ hw.DR = 165 /\ ~RxneSet(hw)
    /\ engine = IdleEngine

(***************************************************************************)
(* C8.  Rw(out) stores out to DR before anything else and touches no other *)
(* register; it does not leave its loop in a state where RXNE is clear; it *)
(* returns the low byte of DR as loaded after the loop.  On a loopback the *)
(* value returned is out, for every out.  operator uint8_t() stores 0xFF.  *)
(***************************************************************************)
C8_StepRules ==
    \A t \in AllTasks :
        /\ pc[t] = "idle" /\ pc'[t] \in Polls =>
              /\ out'[t] \in 0..255
              /\ Len(engine'.tx) > 0
              /\ engine'.tx[Len(engine'.tx)] = [byte |-> out'[t], from |-> t]
              /\ hw' = hw
        /\ pc[t] = "idle" /\ pc'[t] = "uint8_poll" => out'[t] = 255
        /\ pc[t] \in Polls /\ pc'[t] # pc[t] =>
              RxneSet(hw) /\ pc'[t] \in Reads /\ hw' = hw
        /\ pc[t] \in {"rw_read", "uint8_read"} /\ pc'[t] # pc[t] =>
              /\ pc'[t] = "idle"
              /\ ret' = hw.DR % 256
              /\ ~RxneSet(hw')
              /\ wire = "loopback" => ret' = out[t]

C8_Transfer ==
    /\ [](\A t \in AllTasks : pc[t] \in Reads /\ wire = "loopback" =>
                                hw.DR = out[t])
    /\ [][C8_StepRules]_vars

\* Rw(0xA5) has returned 0xA5 on a loopback
C8_Witness ==
    /\ wire = "loopback"
    /\ tasks = {1} /\ pc[1] = "idle"
    /\ ret = 165 /\ hw.DR = 165 /\ ~RxneSet(hw)
    /\ active /\ MasterRunning

(***************************************************************************)
(* C9.  A task in the loop of Rw stays in it for as long as RXNE is clear: *)
(* no step takes it out of the loop from a state where RXNE is clear, so   *)
(* if RXNE stays clear for ever the task stays in the loop for ever, and   *)
(* every return from Rw comes after a state in which RXNE is set.          *)
(***************************************************************************)
C9_NoTimeout ==
    /\ [][\A t \in AllTasks :
             pc[t] \in Polls /\ ~RxneSet(hw) => pc'[t] = pc[t]]_vars
    /\ \A t \in AllTasks :
          []((pc[t] \in Polls /\ []~RxneSet(hw)) => [](pc[t] \in Polls))
    /\ [][\A t \in AllTasks :
             InRw(t) /\ pc'[t] = "idle" => pc[t] \in Reads]_vars

\* Rw was called on a disabled peripheral: the byte waits in the transmit
\* buffer, RXNE is clear and nothing will set it
C9_Witness ==
    /\ pc[1] = "rw_poll"
    /\ ~RxneSet(hw)
    /\ ~MasterRunning
    /\ Len(engine.tx) = 1
    /\ ~ENABLED HwExchange

(***************************************************************************)
(* C11.  SetActive has no guard and is idempotent: a SetActive(false) that *)
(* directly follows a SetActive(false), and a SetActive(true) that directly*)
(* follows the constructor or a SetActive(true), leaves every register,    *)
(* the clock bit, the remap bit and every pin as the call before it left   *)
(* them, whatever the state before the first of the two calls was.         *)
(***************************************************************************)
C11_SetActiveIdempotent ==
    [][/\ (last = "SetActive(false)" /\ last' = "SetActive(false)") =>
              hw' = hw
       /\ (last \in {"Spi", "SetActive(true)"} /\ last' = "SetActive(true)") =>
              hw' = hw
       /\ same' => hw' = hw]_vars

\* SetActive(false) has been called twice in a row on a remapped SPI_1 whose
\* registers held all ones at construction and whose divisor was changed
C11_Witness ==
    /\ same /\ last = "SetActive(false)"
    /\ props.NUMBER = "SPI_1" /\ props.REMAP = REMAP_FULL
    /\ hw.CR1 = 0 /\ hw.CR2 = 0
    /\ hw.MAPR = AllOnes - AFIO_MAPR_SPI1_REMAP
    /\ hw.APB2ENR = AllOnes - RCC_APB2ENR_SPI1EN
    /\ hw.mode["B3"] = "INPUT"

(***************************************************************************)
(* C17.  WaitTxDone always returns, whatever SR holds.  It loads the       *)
(* divisor once, on entry; its loop body then runs 0 times for divisor 2,  *)
(* once for 4, twice for 8 and 16, three times for 32 to 256 (whatever is  *)
(* stored to CR1 meanwhile), so never more than three times and never      *)
(* fewer for a larger divisor; no step of it changes a register.           *)
(***************************************************************************)
C17_Iterations(div) ==
    CASE div = SPI_DIV_2 -> 0
      [] div = SPI_DIV_4 -> 1
      [] div \in {SPI_DIV_8, SPI_DIV_16} -> 2
      [] div \in {SPI_DIV_32, SPI_DIV_64, SPI_DIV_128, SPI_DIV_256} -> 3

\* iterations still to run for a value of the local div
C17_Left(d) == IF d = 0 THEN 0 ELSE IF d = 1 THEN 1 ELSE IF d < 4 THEN 2 ELSE 3

C17_StepRules ==
    \A t \in AllTasks :
        /\ pc[t] # "wait" /\ pc'[t] = "wait" =>
              /\ iters'[t] = 0
              /\ C17_Left(loc'[t]) = C17_Iterations(BitAnd(hw.CR1, SPI_DIV_256))
              /\ hw' = hw
        /\ pc[t] = "wait" /\ pc'[t] = "wait" =>
              /\ iters'[t] + C17_Left(loc'[t]) = iters[t] + C17_Left(loc[t])
              /\ iters'[t] \in {iters[t], iters[t] + 1}
              /\ iters'[t] # iters[t] => hw' = hw
        /\ pc[t] = "wait" /\ pc'[t] # "wait" =>
              /\ C17_Left(loc[t]) = 0
              /\ iters'[t] = iters[t]
              /\ pc'[t] = "idle"
              /\ hw' = hw

C17_WaitTxDoneTerminates ==
    /\ \A t \in AllTasks : (pc[t] = "wait") ~> (pc[t] = "idle")
    /\ [](\A t \in AllTasks : pc[t] = "wait" => iters[t] + C17_Left(loc[t]) <= 3)
    /\ [](\A d, e \in Divisor : d <= e => C17_Iterations(d) <= C17_Iterations(e))
    /\ [][C17_StepRules]_vars

\* WaitTxDone has returned after three iterations with every bit of SR set
C17_Witness ==
    /\ last = "WaitTxDone"
    /\ pc[1] = "idle" /\ iters[1] = 3
    /\ hw.SR = 65535
    /\ BitAnd(hw.CR1, SPI_DIV_256) = SPI_DIV_32

(***************************************************************************)
(* C12.  Only a step of Lock, TryLock or Unlock changes the mutex or the   *)
(* set of holders: no step of Rw, SetDivisor, SetCpol, SetCpha, Enable,    *)
(* Disable, WaitTxDone or SetActive does.  None of these waits for the     *)
(* mutex: while another task holds the lock and is between the store to DR *)
(* and the load of DR in Rw, an idle task can start each of them and a     *)
(* task that has started one can go on with it.                            *)
(***************************************************************************)
C12_LockStep ==
    \E t \in AllTasks : Lock(t) \/ LockResume(t) \/ TryLock(t) \/ Unlock(t)

C12_CanRun(t) ==
    /\ pc[t] = "idle" =>
          /\ \A b \in bytes : ENABLED Rw(t, b)
          /\ ENABLED EnableLoad(t) /\ ENABLED DisableLoad(t)
          /\ ENABLED SetDivisorLoad(t, SPI_DIV_256)
          /\ ENABLED SetCpolLoad(t, CPOL_H)
          /\ ENABLED SetCphaLoad(t, CPHA_2)
          /\ ENABLED WaitTxDoneEnter(t)
          /\ \A on \in BOOLEAN : ENABLED SetActiveStart(t, on)
    /\ pc[t] \in Rmw => ENABLED StoreCR1(t)
    /\ pc[t] = "wait" => ENABLED (WaitTxDoneLoop(t) \/ WaitTxDoneExit(t))
    /\ pc[t] = "SetActive(true)" => ENABLED HwInitStep(t)
    /\ pc[t] = "SetActive(false)" => ENABLED HwDeinitStep(t)

C12_LockIgnored ==
    /\ [][mutex' # mutex \/ held' # held => C12_LockStep]_vars
    /\ [](\A t \in AllTasks :
            (\E u \in AllTasks \ {t} : u \in held /\ InRw(u)) =>
                C12_CanRun(t))

\* task 1 holds the lock and is between its store to DR and its load of DR;
\* task 2, which does not hold the lock, is inside SetDivisor and can store
C12_Witness ==
    /\ held = {1} /\ mutex = 1
    /\ pc[1] = "rw_poll" /\ engine.tx # <<>>
    /\ pc[2] = "SetDivisor"
    /\ loc[2] = SetDivisorWord(hw.CR1, SPI_DIV_256)
    /\ GetDivisor(hw) = SPI_DIV_32
    /\ ENABLED StoreCR1(2)

(***************************************************************************)
(* C13.  Spi<props> exists for five (NUMBER, REMAP) pairs and not for      *)
(* (SPI_2, REMAP_FULL).  Its SCK, MISO, MOSI are (A5, A6, A7) for          *)
(* (SPI_1, none), (B3, B4, B5) for (SPI_1, full) and (SPI_3, none),        *)
(* (B13, B14, B15) for (SPI_2, none), (C10, C11, C12) for (SPI_3, full):   *)
(* these are the only pins the object ever changes, and after HwInit they  *)
(* carry the SCK, MOSI and MISO settings.  Each NUMBER has its own         *)
(* register base and its own clock bit, SPI_1 in APB2ENR, SPI_2 and SPI_3  *)
(* in APB1ENR, the only clock bit the object ever changes.                 *)
(***************************************************************************)
C13_Triple ==
    CASE props.NUMBER = "SPI_1" /\ props.REMAP = REMAP_NONE -> <<"A5", "A6", "A7">>
      [] props.NUMBER = "SPI_1" /\ props.REMAP = REMAP_FULL -> <<"B3", "B4", "B5">>
      [] props.NUMBER = "SPI_2" /\ props.REMAP = REMAP_NONE -> <<"B13", "B14", "B15">>
      [] props.NUMBER = "SPI_3" /\ props.REMAP = REMAP_NONE -> <<"B3", "B4", "B5">>
      [] props.NUMBER = "SPI_3" /\ props.REMAP = REMAP_FULL -> <<"C10", "C11", "C12">>
      [] OTHER -> <<>>

C13_Clock ==
    CASE props.NUMBER = "SPI_1" -> <<"APB2ENR", RCC_APB2ENR_SPI1EN, "SPI1_BASE">>
      [] props.NUMBER = "SPI_2" -> <<"APB1ENR", RCC_APB1ENR_SPI2EN, "SPI2_BASE">>
      [] props.NUMBER = "SPI_3" -> <<"APB1ENR", RCC_APB1ENR_SPI3EN, "SPI3_BASE">>

C13_OtherClock == IF C13_Clock[1] = "APB2ENR" THEN "APB1ENR" ELSE "APB2ENR"

C13_State ==
    /\ C13_Triple # <<>>
    /\ <<props.NUMBER, props.REMAP>> # <<"SPI_2", REMAP_FULL>>
    /\ SPIx_BASE(props.NUMBER) = C13_Clock[3]
    /\ \A n \in SpiNum \ {props.NUMBER} :
          SPIx_BASE(n) # SPIx_BASE(props.NUMBER)
    /\ last \in {"Spi", "SetActive(true)"} =>
          /\ hw.mode[C13_Triple[1]] = "ALT_OUTPUT"
          /\ hw.mode[C13_Triple[3]] = "ALT_OUTPUT"
          /\ hw.mode[C13_Triple[2]] =
                IF chip = "F2xxF4xx" THEN "ALT_OUTPUT" ELSE "INPUTPULLED"
          /\ BitAnd(hw[C13_Clock[1]], C13_Clock[2]) = C13_Clock[2]
    /\ last = "SetActive(false)" =>
          /\ \A i \in 1..3 : hw.mode[C13_Triple[i]] = "INPUT"
          /\ BitAnd(hw[C13_Clock[1]], C13_Clock[2]) = 0

C13_Frame ==
    /\ \A pin \in AllPins :
          hw'.mode[pin] # hw.mode[pin] \/ hw'.alt[pin] # hw.alt[pin] =>
             \E i \in 1..3 : pin = C13_Triple[i]
    /\ hw'[C13_OtherClock] = hw[C13_OtherClock]
    /\ BitOr(hw'[C13_Clock[1]], C13_Clock[2]) =
          BitOr(hw[C13_Clock[1]], C13_Clock[2])

C13_Binding == [](C13_State) /\ [][C13_Frame]_vars

\* a remapped SPI_3 constructed on cleared registers of a connectivity-line
\* chip
C13_Witness ==
    /\ props.NUMBER = "SPI_3" /\ props.REMAP = REMAP_FULL
    /\ chip = "F10x_CL"
    /\ last = "Spi"
    /\ hw.mode["C10"] = "ALT_OUTPUT" /\ hw.mode["C11"] = "INPUTPULLED"
    /\ hw.mode["C12"] = "ALT_OUTPUT"
    /\ hw.mode["B3"] = "INPUT" /\ hw.mode["A5"] = "INPUT"
    /\ hw.APB1ENR = RCC_APB1ENR_SPI3EN /\ hw.APB2ENR = 0
    /\ hw.MAPR = AFIO_MAPR_SPI3_REMAP

(***************************************************************************)
(* C14.  HwInit stores, in this order, to: the remap register (legacy      *)
(* builds with a remap configured), the clock register, the settings of    *)
(* SCK, MOSI, MISO (on multiplexer builds first the three function slots,  *)
(* then the three modes), I2SCFGR, CR2, CR1.  So the clock bit is set      *)
(* whenever it stores to I2SCFGR, CR2 or CR1; CR1, and with it SPE, is     *)
(* stored by the last statement only, when the three pins are configured;  *)
(* on multiplexer builds a pin's slot is selected before its mode is set   *)
(* and MISO becomes an alternate-function output, on legacy builds a       *)
(* pulled input.                                                           *)
(***************************************************************************)
C14_SCK == C13_Triple[1]
C14_MISO == C13_Triple[2]
C14_MOSI == C13_Triple[3]

C14_Order ==
    IF chip = "F2xxF4xx"
    THEN << <<"reg", C13_Clock[1]>>,
            <<"alt", C14_SCK>>, <<"alt", C14_MOSI>>, <<"alt", C14_MISO>>,
            <<"mode", C14_SCK>>, <<"mode", C14_MOSI>>, <<"mode", C14_MISO>>,
            <<"reg", "I2SCFGR">>, <<"reg", "CR2">>, <<"reg", "CR1">> >>
    ELSE (IF props.REMAP = REMAP_FULL THEN << <<"reg", "MAPR">> >> ELSE <<>>)
         \o << <<"reg", C13_Clock[1]>>,
                <<"mode", C14_SCK>>, <<"mode", C14_MOSI>>, <<"mode", C14_MISO>>,
                <<"reg", "I2SCFGR">>, <<"reg", "CR2">>, <<"reg", "CR1">> >>

C14_Prefix(a, b) == Len(a) <= Len(b) /\ SubSeq(b, 1, Len(a)) = a

C14_InInit(t) == pc[t] \in {"Spi", "SetActive(true)"}

C14_PinsDone(h) ==
    /\ h.mode[C14_SCK] = "ALT_OUTPUT" /\ h.mode[C14_MOSI] = "ALT_OUTPUT"
    /\ h.mode[C14_MISO] =
          IF chip = "F2xxF4xx" THEN "ALT_OUTPUT" ELSE "INPUTPULLED"
    /\ chip = "F2xxF4xx" =>
          \A i \in 1..3 : h.alt[C13_Triple[i]] \in
                {"ALT_FUNC_SPI1", "ALT_FUNC_SPI2", "ALT_FUNC_SPI3"}

C14_StepRules ==
    \A t \in AllTasks :
        C14_InInit(t) /\ trace'[t] # trace[t] =>
            LET target == trace'[t][Len(trace'[t])] IN
            /\ trace'[t] = SubSeq(C14_Order, 1, Len(trace[t]) + 1)
            /\ target \in {<<"reg", "I2SCFGR">>, <<"reg", "CR2">>,
                            <<"reg", "CR1">>} =>
                  BitAnd(hw[C13_Clock[1]], C13_Clock[2]) # 0
            /\ target # <<"reg", "CR1">> =>
                  hw'.CR1 = hw.CR1 /\ pc'[t] = pc[t]
            /\ target = <<"reg", "CR1">> =>
                  /\ pc'[t] = "idle"
                  /\ trace'[t] = C14_Order
                  /\ BitAnd(hw'.CR1, SPI_CR1_SPE) # 0
                  /\ C14_PinsDone(hw)
                  /\ hw.CR2 = 0
                  /\ BitAnd(hw.I2SCFGR, SPI_I2SCFGR_I2SMOD) = 0
            /\ (chip = "F2xxF4xx" /\ target[1] = "mode") =>
                  hw.alt[target[2]] = hw'.alt[target[2]]
                  /\ hw.alt[target[2]] # "AF0"

C14_InitOrder ==
    /\ [](\A t \in AllTasks : C14_InInit(t) => C14_Prefix(trace[t], C14_Order))
    /\ [](last \in {"Spi", "SetActive(true)"} /\ pc[1] = "idle" =>
            C14_PinsDone(hw) /\ trace[1] = C14_Order)
    /\ [][C14_StepRules]_vars

\* the constructor of an SPI_2 on a multiplexer build, on cleared
\* registers, is about to store to CR1
C14_Witness ==
    /\ chip = "F2xxF4xx" /\ props.NUMBER = "SPI_2"
    /\ pc[1] = "Spi" /\ todo[1] = <<"cr1">>
    /\ Len(trace[1]) = 9
    /\ hw.CR1 = 0
    /\ hw.APB1ENR = RCC_APB1ENR_SPI2EN
    /\ hw.mode["B14"] = "ALT_OUTPUT" /\ hw.alt["B14"] = "ALT_FUNC_SPI2"

(***************************************************************************)
(* C15.  HwDeinit stores, in this order, to: CR2, CR1, the remap register  *)
(* (legacy builds with a remap configured), the clock register, the modes  *)
(* of SCK, MOSI, MISO.  So when it starts on an active peripheral, CR2 and *)
(* CR1 are cleared while the clock bit is still set and the pins are still *)
(* configured, and a pin's mode is changed only once the clock bit is      *)
(* clear.                                                                  *)
(***************************************************************************)
C15_Order ==
    << <<"reg", "CR2">>, <<"reg", "CR1">> >>
    \o (IF chip # "F2xxF4xx" /\ props.REMAP = REMAP_FULL
        THEN << <<"reg", "MAPR">> >> ELSE <<>>)
    \o << <<"reg", C13_Clock[1]>>,
           <<"mode", C14_SCK>>, <<"mode", C14_MOSI>>, <<"mode", C14_MISO>> >>

C15_ClockOn(h) == BitAnd(h[C13_Clock[1]], C13_Clock[2]) # 0

C15_StepRules ==
    \A t \in AllTasks :
        pc[t] = "SetActive(false)" /\ trace'[t] # trace[t] =>
            LET target == trace'[t][Len(trace'[t])]
                wasActive == last \in {"Spi", "SetActive(true)"}
            IN
            /\ trace'[t] = SubSeq(C15_Order, 1, Len(trace[t]) + 1)
            /\ target = <<"reg", "CR2">> => hw'.CR2 = 0
            /\ target = <<"reg", "CR1">> => hw'.CR1 = 0 /\ hw'.CR2 = 0
            /\ (wasActive /\ target[2] \in {"CR2", "CR1"}) =>
                  C15_ClockOn(hw) /\ C15_ClockOn(hw') /\ C14_PinsDone(hw')
            /\ (wasActive /\ target = <<"reg", C13_Clock[1]>>) =>
                  /\ C15_ClockOn(hw) /\ ~C15_ClockOn(hw')
                  /\ hw.CR1 = 0 /\ hw.CR2 = 0
                  /\ C14_PinsDone(hw')
            /\ target[1] = "mode" =>
                  ~C15_ClockOn(hw) /\ hw'.mode[target[2]] = "INPUT"
            /\ (pc'[t] = "idle") = (trace'[t] = C15_Order)

C15_DeinitOrder ==
    /\ [](\A t \in AllTasks :
            pc[t] = "SetActive(false)" => C14_Prefix(trace[t], C15_Order))
    /\ [](last = "SetActive(false)" /\ pc[1] = "idle" =>
            trace[1] = C15_Order)
    /\ [][C15_StepRules]_vars

\* HwDeinit of an active remapped SPI_1 has cleared CR2 and CR1: the clock
\* is still on, the remap bit still set, the pins still configured
C15_Witness ==
    /\ props.NUMBER = "SPI_1" /\ props.REMAP = REMAP_FULL /\ chip = "F10x"
    /\ pc[1] = "SetActive(false)" /\ last = "Spi"
    /\ trace[1] = << <<"reg", "CR2">>, <<"reg", "CR1">> >>
    /\ hw.CR1 = 0 /\ hw.CR2 = 0
    /\ hw.APB2ENR = RCC_APB2ENR_SPI1EN
    /\ hw.MAPR = AFIO_MAPR_SPI1_REMAP
    /\ hw.mode["B3"] = "ALT_OUTPUT" /\ hw.mode["B4"] = "INPUTPULLED"

(***************************************************************************)
(* C16.  On legacy builds, over any sequence of SetActive calls: with      *)
(* REMAP_FULL, between calls the peripheral's remap bit in MAPR is set     *)
(* when the last completed call was the constructor or SetActive(true) and *)
(* clear when it was SetActive(false); with REMAP_NONE no call stores to   *)
(* MAPR; in both cases no other bit of MAPR ever changes.  (SPI_3 has a    *)
(* remap bit on connectivity-line chips only; where the peripheral has     *)
(* none, no bit of MAPR changes.)                                          *)
(***************************************************************************)
C16_Bit ==
    CASE props.NUMBER = "SPI_1" -> AFIO_MAPR_SPI1_REMAP
      [] props.NUMBER = "SPI_3" /\ chip = "F10x_CL" -> AFIO_MAPR_SPI3_REMAP
      [] OTHER -> 0

C16_State ==
    chip # "F2xxF4xx" =>
        /\ (props.REMAP = REMAP_FULL /\ pc[1] = "idle") =>
              /\ last \in {"Spi", "SetActive(true)"} =>
                    BitAnd(hw.MAPR, C16_Bit) = C16_Bit
              /\ last = "SetActive(false)" => BitAnd(hw.MAPR, C16_Bit) = 0
        /\ props.REMAP = REMAP_NONE =>
              \A t \in AllTasks : \A i \in 1..Len(trace[t]) :
                  trace[t][i] # <<"reg", "MAPR">>

C16_Frame ==
    chip # "F2xxF4xx" =>
        /\ BitOr(hw'.MAPR, C16_Bit) = BitOr(hw.MAPR, C16_Bit)
        /\ props.REMAP = REMAP_NONE => hw'.MAPR = hw.MAPR

C16_RemapBit == [](C16_State) /\ [][C16_Frame]_vars

\* a remapped SPI_3 on a connectivity-line chip, constructed on cleared
\* registers, was deactivated and activated again
C16_Witness ==
    /\ chip = "F10x_CL"
    /\ props.NUMBER = "SPI_3" /\ props.REMAP = REMAP_FULL
    /\ pc[1] = "idle" /\ last = "SetActive(true)"
    /\ hw.MAPR = AFIO_MAPR_SPI3_REMAP
    /\ trace[1][1] = <<"reg", "MAPR">>

(***************************************************************************)
(* C18.  An accessor that stores to CR1 is a load of CR1 and a later store *)
(* of the word computed from the value loaded: the load leaves CR1 alone,  *)
(* and the store writes that word whatever CR1 holds by then.  When every  *)
(* task brackets its accessor calls with Lock() and Unlock(), and no two   *)
(* tasks store to the same field, the field of every task's last completed *)
(* call holds what that call stored: no update is lost.  Without the lock  *)
(* a SetCpol(CPOL_H) and a SetCpha(CPHA_2) that interleave can end with    *)
(* the CPOL update lost (the witness).                                     *)
(***************************************************************************)
C18_Kept(t) ==
    done[t] # <<>> => BitAnd(hw.CR1, FieldOf(done[t][1])) = done[t][2]

C18_State ==
    (\A t \in tasks : disc[t]) => \A t \in tasks : C18_Kept(t)

C18_Steps ==
    \A t \in tasks :
        /\ pc[t] = "idle" /\ pc'[t] \in Rmw =>
              /\ hw' = hw
              /\ BitAnd(loc'[t], AllOnes - FieldOf(pc'[t]))
                    = BitAnd(hw.CR1, AllOnes - FieldOf(pc'[t]))
        /\ pc[t] \in Rmw /\ pc'[t] = "idle" =>
              /\ hw'.CR1 = loc[t]
              /\ disc[t] => BitAnd(hw'.CR1, AllOnes - FieldOf(pc[t]))
                              = BitAnd(hw.CR1, AllOnes - FieldOf(pc[t]))

C18_ReadThenWrite == []C18_State /\ [][C18_Steps]_vars

C18_Witness ==
    /\ \A t \in tasks : ~disc[t] /\ pc[t] = "idle"
    /\ done[1] # <<>> /\ done[2] # <<>>
    /\ done[1] = <<"SetCpol", CPOL_H>>
    /\ done[2] = <<"SetCpha", CPHA_2>>
    /\ BitAnd(hw.CR1, SPI_CR1_CPHA) = CPHA_2
    /\ BitAnd(hw.CR1, SPI_CR1_CPOL) # CPOL_H

(***************************************************************************)
(* C19.  With a fair scheduler, hardware that completes the exchange of a  *)
(* byte written to DR while the peripheral stays clocked and enabled, and  *)
(* tasks that hold the lock around every Rw, Disable and SetActive and     *)
(* start a transfer only in the Active, enabled state: every transfer      *)
(* returns and every task suspended in Lock() gets the lock.               *)
(* C19_AsStated is this statement.  C19_Liveness is the same of tasks that *)
(* also hold the lock around Enable, SetDivisor, SetCpol and SetCpha, the  *)
(* other calls that store to CR1; of these it also says that the           *)
(* peripheral stays a clocked, enabled master while a task waits for RXNE  *)
(* with bytes written to DR and not exchanged yet.                         *)
(***************************************************************************)
C19_Live(t) ==
    /\ InRw(t) ~> pc[t] = "idle"
    /\ pc[t] = "lock_wait" ~> t \in held

C19_StaysOn ==
    \A t \in tasks :
        pc[t] \in Polls /\ Len(engine.tx) > 0 => MasterRunning

C20_On ==
    /\ Clocked(props, hw)
    /\ hw.mode[SCK(props)] = "ALT_OUTPUT"
    /\ hw.mode[MOSI(props)] = "ALT_OUTPUT"

C20_Off ==
    /\ ~Clocked(props, hw)
    /\ \A pin \in {SCK(props), MISO(props), MOSI(props)} :
          hw.mode[pin] = "INPUT"

\* the clock-enable bit, the remap bit and the pin modes
C20_Settings(h) ==
    <<BitAnd(h[ClockReg(props.NUMBER)], ClockBit(props.NUMBER)),
      IF F2xxF4xx(chip) THEN 0
      ELSE BitAnd(h.MAPR, SPIx_REMAP(props.NUMBER, chip)),
      h.mode>>

C20_Rest == Quiet /\ last # "none"

\* the settings change only in a statement of one of these calls
C20_OnlyIn(calls) ==
    hw' # hw /\ C20_Settings(hw') # C20_Settings(hw) =>
        \E t \in tasks : pc[t] \in calls /\ todo'[t] # todo[t]

C20_Return ==
    \A t \in tasks :
        /\ pc[t] \in InHwInit /\ pc'[t] = "idle" => C20_On'
        /\ pc[t] \in InHwDeinit /\ pc'[t] = "idle" => C20_Off'

C20_AsStated ==
    /\ [](C20_Rest => IF active THEN C20_On ELSE C20_Off)
    /\ [][C20_OnlyIn(Lifecycle)]_vars

C20_TwoConfigurations ==
    /\ [](C20_Rest => (C20_On /\ ~C20_Off) \/ (C20_Off /\ ~C20_On))
    /\ [][C20_Return /\ C20_OnlyIn(InHwInit \cup InHwDeinit)]_vars

\* the most recent SetActive was SetActive(true) or the construction; an
\* HwDeinit() called since has returned, and a transfer is waiting for RXNE
C20_Witness ==
    /\ C20_Rest /\ active /\ C20_Off
    /\ last = "HwDeinit"
    /\ \E t \in tasks : pc[t] = "rw_poll"
====
